---- MODULE Spec2Model ----
(***************************************************************************)
(* Model of the ralph task pipeline: run_implement and                     *)
(* execute_task_with_recovery (cli/ralph/commands/implement.py) together   *)
(* with the collaborators they call (recovery_loop, should_recover,        *)
(* should_retry_fresh, the ErrorType predicates, the Notifier).            *)
(*                                                                         *)
(* One variable pc holds the position of the single thread of control:     *)
(*   start    run_implement entered, nothing done yet                      *)
(*   loop     head of "for task_num in tasks"                              *)
(*   build    head of "while True" in execute_task_with_recovery           *)
(*   running  run_claude in flight                                         *)
(*   decide   run_claude returned, result not yet examined                 *)
(*   rl_top   head of the for loop of recovery_loop                        *)
(*   rl_wait  recovery_loop sleeping for the announced delay               *)
(*   rl_probe recovery_loop asking the health probe                        *)
(*   classify execute_task_with_recovery returned to run_implement         *)
(*   summary  task loop left                                               *)
(*   batch    run_batch_check in progress                                  *)
(*   done     run_implement returned exit_code                             *)
(*   interrupted  run_implement left by an unhandled operator interrupt     *)
(*                                                                         *)
(* The scripts and modules around the pipeline (scripts/health_check.py,   *)
(* scripts/format-output.py, cli/ralph/config.py, cli/ralph/notify.py) are  *)
(* modelled by operators for their functions and by ScriptSpec, whose      *)
(* behaviours run one of them on one input; program names the script and   *)
(* step its position.                                                      *)
(*                                                                         *)
(* cleanup_working_dir (cli/ralph/git.py), run_review                      *)
(* (cli/ralph/commands/review.py) and run_plan (cli/ralph/commands/plan.py) *)
(* are the programs of CommandSpec.                                        *)
(***************************************************************************)
EXTENDS Integers, Sequences, FiniteSets, TLC

\* ------------------------------------------------------------------ bounds
MaxTasks == 3
MaxRetries == 2
MaxDelays == 2
NumSessions == 1

\* ------------------------------------------------------------- error kinds
ErrorKind ==
    {"Success", "OnHold", "AuthError", "RateLimited", "Overloaded",
     "ContextOverflow", "Timeout", "ProcessError", "Unknown"}

is_success(e) == e = "Success"

is_fatal(e) == e = "AuthError"

is_recoverable(e) == e \in {"RateLimited", "Overloaded", "Timeout", "ProcessError"}

\* ------------------------------------------------------------------ values
NoSession == 0

SessionIds == 1..NumSessions

TaskResult == [error_type : ErrorKind, session_id : SessionIds \cup {NoSession}]

NoResult == [error_type |-> "None", session_id |-> NoSession]

NoNote == [kind |-> "none", retry |-> 0, max |-> 0, error |-> "None"]

OverflowNote(n, m) == [kind |-> "overflow", retry |-> n, max |-> m, error |-> "None"]

ResumeNote(e) == [kind |-> "resume", retry |-> 0, max |-> 0, error |-> e]

NoEvent == [name |-> "none", a |-> 0, b |-> 0, c |-> 0]

Event(n, x, y, z) == [name |-> n, a |-> x, b |-> y, c |-> z]

\* The channel of one notification: Telegram accepts the message, the
\* request fails, or no token / chat id is configured.
DeliveryStatus == {"sent", "failed", "unconfigured"}

\* send_telegram: True when Telegram answered ok; every exception of the
\* request is caught and answered with False.
send_telegram(status) == status = "sent"

\* Notifier._send: False without configuration, else send_telegram.
Notifier_send(status) ==
    IF status = "unconfigured" THEN FALSE ELSE send_telegram(status)

NoDelivery == [status |-> "none", returned |-> FALSE]

Delivery(status) == [status |-> status, returned |-> Notifier_send(status)]

NoPrompt == [task |-> 0, note |-> NoNote]

build_prompt(task, note) == [task |-> task, note |-> note]

\* Delay lists <<1, 2, 1, ..>> and <<2, 1, 2, ..>> of every length up to MaxDelays.
DelayLists == {[k \in 1..n |-> 1 + ((k + o) % 2)] : n \in 0..MaxDelays, o \in {0, 1}}

TaskLists == {[i \in 1..n |-> i] : n \in 0..MaxTasks}

\* ------------------------------------------------- values of the scripts
\* An Optional[str]: None, or a string as the sequence of its symbols.
None == [some |-> FALSE, value |-> <<>>]

Some(s) == [some |-> TRUE, value |-> s]

\* bool(x) of an Optional[str]: None and "" are false.
truthy(x) == x.some /\ x.value # <<>>

\* The probe subprocess of health_check.py before it ran, and its result.
NoProbe == [behaviour |-> "none", lines |-> <<>>]

NoHealth == [code |-> -1, status |-> "none", detail |-> {}]

\* format-output.py: session_stats as the module defines it.
ZeroStats ==
    [input_tokens |-> 0, output_tokens |-> 0, cache_read |-> 0, cost_usd |-> 0,
     tool_calls |-> 0]

\* config.py: an .env file that does not exist; _config before get_config.
NoFile == [exists |-> FALSE, lines |-> <<>>]

NoConfig ==
    [telegram_bot_token |-> None, telegram_chat_id |-> None,
     recovery_enabled |-> FALSE, recovery_delays |-> <<>>,
     context_overflow_max_retries |-> -1]

NoNotifier == [token |-> None, chat_id |-> None]

\* ------------------------------------------------ values of the commands
\* The paths of a working directory.
MaxPaths == 2

Paths == 1..MaxPaths

\* A path of the working tree: tracked and unchanged ("clean"), tracked with
\* a change that is not staged ("modified"), tracked with a change that is
\* staged ("staged"), not tracked ("untracked") or not there ("absent").
FileStatus == {"clean", "modified", "staged", "untracked", "absent"}

Trees == [Paths -> FileStatus]

NoTree == [p \in Paths |-> "absent"]

\* review.py lines 25-30: the skills of the reviews, in the order of the list.
REVIEWS ==
    <<"ralph-review-code", "ralph-review-simplify", "ralph-review-security",
      "ralph-review-codex">>

\* --------------------------------------------------- recovery predicates
should_retry_fresh(e, attempts, cfg) ==
    e = "ContextOverflow" /\ attempts < cfg.context_overflow_max_retries

should_recover(e, cfg) == cfg.recovery_enabled /\ is_recoverable(e)

VARIABLES
    \* position of the single thread of control
    pc,
    \* run_implement: arguments, configuration and locals
    tasks, no_recovery, config, header_recovery,
    idx, completed, failed, failed_reasons, pipeline_stopped, ret, exit_code,
    \* execute_task_with_recovery: locals
    context_overflow_attempts, resume_session, recovery_note, result,
    \* run_claude in flight: the prompt and the resume id it was started with
    run_prompt, run_resume,
    \* recovery_loop: number of the current attempt
    rl_attempt,
    \* the notification sent by the last step (NoEvent when it sent none), the
    \* state of its channel and the value the notifier returned for it
    notified, delivery,
    \* the number of pipeline_stopped notifications of the session
    stop_notices,
    \* the session-level notifications sent so far, in order: "session_start",
    \* "pipeline_stopped", "session_complete"
    session_events,
    \* observations of the session: tasks invoked at least once, tasks whose
    \* working tree was cleaned, kinds of the terminal outcomes in task order
    attempted, cleaned, outcomes,
    \* observations of the current task: fresh retries taken; waits and probes
    \* of the last recovery; the transition that led to the current attempt
    \* ("first", "fresh", "resume") and whether it was the first one of the
    \* task; how the task returned ("no", "done", "failed", "exhausted");
    \* whether every outcome so far was ContextOverflow; the outcome that
    \* started the last recovery; the resume id the last fresh retry dropped
    nFresh, nWaits, nProbes, via, first_retry, ended, onlyOverflow, trigger,
    cleared_session,
    \* run_batch_check: "none" before it is called, "running", then "ok" or
    \* "error"; the completed_tasks it was called with
    batch, batch_tasks,
    \* whether an operator interrupt hit the current task
    interrupted,
    \* the program of this behaviour ("ralph implement", "health_check",
    \* "format-output", "config") and the position of the three scripts
    program, step,
    \* health_check.py: what the probe subprocess did, and check_health's result
    probe, health,
    \* format-output.py: the lines of standard input, the number of lines
    \* read, the totals and the return value of process_line for every line
    stdin, line_no, session_stats, rendered,
    \* config.py and notify.py: the .env file, the dictionary read from it,
    \* the configuration loaded, the Notifier built from it and the number
    \* of requests it made to Telegram
    env_file, env_vars, loaded_config, notifier, network_sends,
    \* the value a command returned (-1 before it returns), the warnings it
    \* wrote to the console, whether an operator interrupt is propagating
    returned, warnings, raising,
    \* git.py: whether the working directory is a git repository, the status
    \* of every path of its working tree, the list cleanup_working_dir returned
    is_repo, tree, cleaned_files,
    \* review.py: the workflow state file and its backup ("absent" or the
    \* content), and the locals state_suspended and results of run_review
    state_file, state_backup, state_suspended, results,
    \* plan.py: the tasks of run_plan, the index of the current one, the
    \* tasks whose iteration began, and the locals completed and failed
    plan_tasks, plan_idx, plan_started, plan_completed, plan_failed

vars ==
    <<pc, tasks, no_recovery, config, header_recovery, idx, completed, failed,
      failed_reasons, pipeline_stopped, ret, exit_code, context_overflow_attempts,
      resume_session, recovery_note, result, run_prompt, run_resume, rl_attempt,
      notified, attempted, cleaned, outcomes, nFresh, nWaits, nProbes, via,
      first_retry, ended, onlyOverflow, trigger, cleared_session, batch,
      batch_tasks, delivery, stop_notices, session_events, interrupted, program,
      step, probe,
      health, stdin, line_no, session_stats, rendered, env_file, env_vars,
      loaded_config, notifier, network_sends, returned, warnings, raising,
      is_repo, tree, cleaned_files, state_file, state_backup, state_suspended,
      results, plan_tasks, plan_idx, plan_started, plan_completed, plan_failed>>

\* The variables of the commands, which the scripts leave alone.
command_vars ==
    <<returned, warnings, raising, is_repo, tree, cleaned_files, state_file,
      state_backup, state_suspended, results, plan_tasks, plan_idx, plan_started,
      plan_completed, plan_failed>>

\* The variables of the scripts and the commands, which run_implement
\* leaves alone.
script_vars ==
    <<program, step, probe, health, stdin, line_no, session_stats, rendered,
      env_file, env_vars, loaded_config, notifier, network_sends, command_vars>>

\* No command runs.
CommandsIdle ==
    /\ returned = -1
    /\ warnings = {}
    /\ raising = FALSE
    /\ is_repo = FALSE
    /\ tree = NoTree
    /\ cleaned_files = <<>>
    /\ state_file = "absent"
    /\ state_backup = "absent"
    /\ state_suspended = FALSE
    /\ results = <<>>
    /\ plan_tasks = <<>>
    /\ plan_idx = 1
    /\ plan_started = <<>>
    /\ plan_completed = <<>>
    /\ plan_failed = <<>>

\* No script runs: the behaviour is one of ralph implement.
ScriptsIdle ==
    /\ program = "ralph implement"
    /\ step = "idle"
    /\ probe = NoProbe
    /\ health = NoHealth
    /\ stdin = <<>>
    /\ line_no = 0
    /\ session_stats = ZeroStats
    /\ rendered = <<>>
    /\ env_file = NoFile
    /\ env_vars = {}
    /\ loaded_config = NoConfig
    /\ notifier = NoNotifier
    /\ network_sends = 0
    /\ CommandsIdle

task_num == tasks[idx]

\* A call of a Notifier event method: the message goes to _send, whose
\* return value the callers in implement.py drop.
Notify(event) ==
    /\ notified' = event
    /\ \E status \in DeliveryStatus : delivery' = Delivery(status)

\* A step that calls no Notifier method.
Quiet ==
    /\ notified' = NoEvent
    /\ delivery' = NoDelivery

\* ------------------------------------------------------------------- Init
Configs ==
    [recovery_enabled : BOOLEAN,
     recovery_delays : DelayLists,
     context_overflow_max_retries : 0..MaxRetries]

\* The state at the entry of run_implement for a task queue and a
\* configuration (get_config) taken from the given sets.
InitWith(queues, configs) ==
    /\ ScriptsIdle
    /\ pc = "start"
    /\ tasks \in queues
    /\ no_recovery \in BOOLEAN
    /\ config \in configs
    /\ header_recovery = "unset"
    /\ idx = 1
    /\ completed = <<>>
    /\ failed = <<>>
    /\ failed_reasons = <<>>
    /\ pipeline_stopped = FALSE
    /\ ret = NoResult
    /\ exit_code = -1
    /\ context_overflow_attempts = 0
    /\ resume_session = NoSession
    /\ recovery_note = NoNote
    /\ result = NoResult
    /\ run_prompt = NoPrompt
    /\ run_resume = NoSession
    /\ rl_attempt = 0
    /\ notified = NoEvent
    /\ delivery = NoDelivery
    /\ stop_notices = 0
    /\ session_events = <<>>
    /\ interrupted = FALSE
    /\ attempted = {}
    /\ cleaned = <<>>
    /\ nFresh = 0
    /\ nWaits = 0
    /\ nProbes = 0
    /\ via = "first"
    /\ ended = "no"
    /\ first_retry = FALSE
    /\ onlyOverflow = TRUE
    /\ trigger = NoResult
    /\ cleared_session = NoSession
    /\ outcomes = <<>>
    /\ batch = "none"
    /\ batch_tasks = <<>>

\* Sessions of at most one task, over every configuration.
Init == InitWith({q \in TaskLists : Len(q) <= 1}, Configs)

\* Sessions over every task queue, with recovery configured (and switched
\* off by no_recovery or not), one backoff delay and one fresh retry.
QueueConfigs ==
    {c \in Configs : /\ c.recovery_enabled
                     /\ c.recovery_delays = <<1>>
                     /\ c.context_overflow_max_retries = 1}

QueueInit == InitWith(TaskLists, QueueConfigs)

\* ------------------------------------------------------------ run_implement
\* Lines 36-44: no task numbers given, run_implement returns 1.
StartNoTasks ==
    /\ pc = "start"
    /\ tasks = <<>>
    /\ config' = [config EXCEPT !.recovery_enabled = IF no_recovery THEN FALSE ELSE @]
    /\ Quiet
    /\ exit_code' = 1
    /\ pc' = "done"
    /\ UNCHANGED <<tasks, no_recovery, header_recovery, idx, completed, failed,
                   failed_reasons, pipeline_stopped, ret, context_overflow_attempts,
                   resume_session, recovery_note, result, run_prompt, run_resume,
                   rl_attempt, attempted, cleaned, nFresh, nWaits, nProbes, via,
                   first_retry, ended, onlyOverflow, trigger, cleared_session, outcomes,
                   batch, batch_tasks, stop_notices, session_events, interrupted,
                   script_vars>>

\* StartSession without the override of recovery_enabled (lines 37-38).
StartSession_IgnoreFlag ==
    /\ pc = "start"
    /\ tasks # <<>>
    /\ header_recovery' = IF no_recovery THEN "disabled" ELSE "enabled"
    /\ Notify(Event("session_start", Len(tasks), 0, 0))
    /\ session_events' = Append(session_events, "session_start")
    /\ completed' = <<>>
    /\ failed' = <<>>
    /\ failed_reasons' = <<>>
    /\ pipeline_stopped' = FALSE
    /\ pc' = "loop"
    /\ UNCHANGED <<tasks, no_recovery, config, idx, ret, exit_code,
                   context_overflow_attempts, resume_session, recovery_note, result,
                   run_prompt, run_resume, rl_attempt, attempted, cleaned, nFresh,
                   nWaits, nProbes, via, first_retry, ended, onlyOverflow, trigger,
                   cleared_session, outcomes, batch, batch_tasks, stop_notices,
                   interrupted, script_vars>>

\* Lines 36-79: configuration, session log header, session_start.
StartSession ==
    /\ pc = "start"
    /\ tasks # <<>>
    /\ config' = [config EXCEPT !.recovery_enabled = IF no_recovery THEN FALSE ELSE @]
    /\ header_recovery' = IF no_recovery THEN "disabled" ELSE "enabled"
    /\ Notify(Event("session_start", Len(tasks), 0, 0))
    /\ session_events' = Append(session_events, "session_start")
    /\ completed' = <<>>
    /\ failed' = <<>>
    /\ failed_reasons' = <<>>
    /\ pipeline_stopped' = FALSE
    /\ pc' = "loop"
    /\ UNCHANGED <<tasks, no_recovery, idx, ret, exit_code, context_overflow_attempts,
                   resume_session, recovery_note, result, run_prompt, run_resume,
                   rl_attempt, attempted, cleaned, nFresh, nWaits, nProbes, via,
                   first_retry, ended, onlyOverflow, trigger, cleared_session, outcomes,
                   batch, batch_tasks, stop_notices, interrupted, script_vars>>

\* StartTask with a retry counter that lives across tasks: a task behind one
\* that ended in ContextOverflow starts with the budget used up (line 173).
StartTask_SharedBudget ==
    /\ pc = "loop"
    /\ idx <= Len(tasks)
    /\ ~pipeline_stopped
    /\ cleaned' = Append(cleaned, task_num)
    /\ ret' = NoResult
    /\ Quiet
    /\ interrupted' = FALSE
    /\ context_overflow_attempts' = IF \E i \in 1..Len(outcomes) : outcomes[i] = "ContextOverflow"
                                   THEN config.context_overflow_max_retries ELSE 0
    /\ resume_session' = NoSession
    /\ recovery_note' = NoNote
    /\ result' = NoResult
    /\ run_prompt' = NoPrompt
    /\ run_resume' = NoSession
    /\ rl_attempt' = 0
    /\ nFresh' = 0
    /\ nWaits' = 0
    /\ nProbes' = 0
    /\ via' = "first"
    /\ ended' = "no"
    /\ onlyOverflow' = TRUE
    /\ first_retry' = FALSE
    /\ trigger' = NoResult
    /\ cleared_session' = NoSession
    /\ pc' = "build"
    /\ UNCHANGED <<tasks, no_recovery, config, header_recovery, idx, completed, failed,
                   failed_reasons, pipeline_stopped, exit_code, attempted, outcomes,
                   batch, batch_tasks, stop_notices, session_events, script_vars>>

\* Lines 81-103 and 172-175: the next task is taken, the working tree is
\* cleaned and execute_task_with_recovery is entered with fresh locals. The
\* result of the previous task is dead from here on.
StartTask ==
    /\ pc = "loop"
    /\ idx <= Len(tasks)
    /\ ~pipeline_stopped
    /\ cleaned' = Append(cleaned, task_num)
    /\ ret' = NoResult
    /\ Quiet
    /\ interrupted' = FALSE
    /\ context_overflow_attempts' = 0
    /\ resume_session' = NoSession
    /\ recovery_note' = NoNote
    /\ result' = NoResult
    /\ run_prompt' = NoPrompt
    /\ run_resume' = NoSession
    /\ rl_attempt' = 0
    /\ nFresh' = 0
    /\ nWaits' = 0
    /\ nProbes' = 0
    /\ via' = "first"
    /\ ended' = "no"
    /\ onlyOverflow' = TRUE
    /\ first_retry' = FALSE
    /\ trigger' = NoResult
    /\ cleared_session' = NoSession
    /\ pc' = "build"
    /\ UNCHANGED <<tasks, no_recovery, config, header_recovery, idx, completed, failed,
                   failed_reasons, pipeline_stopped, exit_code, attempted, outcomes,
                   batch, batch_tasks, stop_notices, session_events, script_vars>>

\* Lines 81-83: the queue is consumed, or break after a fatal outcome. The
\* locals of the last task are out of scope from here on.
LeaveLoop ==
    /\ pc = "loop"
    /\ (idx > Len(tasks) \/ pipeline_stopped)
    /\ ret' = NoResult
    /\ Quiet
    /\ interrupted' = FALSE
    /\ context_overflow_attempts' = 0
    /\ resume_session' = NoSession
    /\ recovery_note' = NoNote
    /\ result' = NoResult
    /\ run_prompt' = NoPrompt
    /\ run_resume' = NoSession
    /\ rl_attempt' = 0
    /\ nFresh' = 0
    /\ nWaits' = 0
    /\ nProbes' = 0
    /\ via' = "first"
    /\ ended' = "no"
    /\ onlyOverflow' = TRUE
    /\ first_retry' = FALSE
    /\ trigger' = NoResult
    /\ cleared_session' = NoSession
    /\ pc' = "summary"
    /\ UNCHANGED <<tasks, no_recovery, config, header_recovery, idx, completed, failed,
                   failed_reasons, pipeline_stopped, exit_code, attempted, cleaned,
                   outcomes, batch, batch_tasks, stop_notices, session_events,
                   script_vars>>

\* ----------------------------------------------- execute_task_with_recovery

\* Lines 177-192: the prompt is built from recovery_note and run_claude is
\* started with resume_session.
InvokeAgent ==
    /\ pc = "build"
    /\ run_prompt' = build_prompt(task_num, recovery_note)
    /\ run_resume' = resume_session
    /\ attempted' = attempted \cup {task_num}
    /\ Quiet
    /\ pc' = "running"
    /\ UNCHANGED <<tasks, no_recovery, config, header_recovery, idx, completed, failed,
                   failed_reasons, pipeline_stopped, ret, exit_code,
                   context_overflow_attempts, resume_session, recovery_note, result,
                   rl_attempt, cleaned, nFresh, nWaits, nProbes, via, first_retry, ended,
                   onlyOverflow, trigger, cleared_session, outcomes, batch, batch_tasks,
                   stop_notices, session_events, interrupted, script_vars>>

\* AgentReturns with the invocation left in flight after the outcome is known.
AgentReturns_StillRunning ==
    /\ pc = "running"
    /\ trigger' = NoResult
    /\ cleared_session' = NoSession
    /\ Quiet
    /\ pc' = "decide"
    /\ \E r \in TaskResult :
        /\ result' = r
        /\ onlyOverflow' = (onlyOverflow /\ r.error_type = "ContextOverflow")
    /\ UNCHANGED <<tasks, no_recovery, config, header_recovery, idx, completed, failed,
                   failed_reasons, pipeline_stopped, ret, exit_code,
                   context_overflow_attempts, resume_session, recovery_note, run_prompt,
                   run_resume, rl_attempt, attempted, cleaned, nFresh, nWaits, nProbes,
                   via, first_retry, ended, outcomes, batch, batch_tasks, stop_notices,
                   session_events, interrupted, script_vars>>

\* Line 186: run_claude returns the outcome of the attempt; nothing is in
\* flight any more.
AgentReturns ==
    /\ pc = "running"
    /\ run_prompt' = NoPrompt
    /\ run_resume' = NoSession
    /\ trigger' = NoResult
    /\ cleared_session' = NoSession
    /\ Quiet
    /\ pc' = "decide"
    /\ \E r \in TaskResult :
        /\ result' = r
        /\ onlyOverflow' = (onlyOverflow /\ r.error_type = "ContextOverflow")
    /\ UNCHANGED <<tasks, no_recovery, config, header_recovery, idx, completed, failed,
                   failed_reasons, pipeline_stopped, ret, exit_code,
                   context_overflow_attempts, resume_session, recovery_note, rl_attempt,
                   attempted, cleaned, nFresh, nWaits, nProbes, via, first_retry, ended,
                   outcomes, batch, batch_tasks, stop_notices, session_events,
                   interrupted, script_vars>>

\* ReturnDone returning on success only: an on-hold outcome loops (line 195).
ReturnDone_RetryOnHold ==
    /\ pc = "decide"
    /\ (is_success(result.error_type) \/ result.error_type = "OnHold")
    /\ Quiet
    /\ IF is_success(result.error_type)
          THEN /\ ret' = result
               /\ outcomes' = Append(outcomes, result.error_type)
               /\ ended' = "done"
               /\ pc' = "classify"
          ELSE /\ pc' = "build"
               /\ UNCHANGED <<ret, outcomes, ended>>
    /\ UNCHANGED <<tasks, no_recovery, config, header_recovery, idx, completed, failed,
                   failed_reasons, pipeline_stopped, exit_code,
                   context_overflow_attempts, resume_session, recovery_note, result,
                   run_prompt, run_resume, rl_attempt, attempted, cleaned, nFresh,
                   nWaits, nProbes, via, first_retry, onlyOverflow, trigger,
                   cleared_session, batch, batch_tasks, stop_notices, session_events,
                   interrupted, script_vars>>

\* Lines 194-196: success or on hold, return immediately.
ReturnDone ==
    /\ pc = "decide"
    /\ (is_success(result.error_type) \/ result.error_type = "OnHold")
    /\ ret' = result
    /\ outcomes' = Append(outcomes, result.error_type)
    /\ ended' = "done"
    /\ Quiet
    /\ pc' = "classify"
    /\ UNCHANGED <<tasks, no_recovery, config, header_recovery, idx, completed, failed,
                   failed_reasons, pipeline_stopped, exit_code,
                   context_overflow_attempts, resume_session, recovery_note, result,
                   run_prompt, run_resume, rl_attempt, attempted, cleaned, nFresh,
                   nWaits, nProbes, via, first_retry, onlyOverflow, trigger,
                   cleared_session, batch, batch_tasks, stop_notices, session_events,
                   interrupted, script_vars>>

\* RetryFresh without the increment of context_overflow_attempts (line 200).
RetryFresh_NoCount ==
    /\ pc = "decide"
    /\ ~(is_success(result.error_type) \/ result.error_type = "OnHold")
    /\ should_retry_fresh(result.error_type, context_overflow_attempts, config)
    /\ Notify(Event("context_overflow", task_num, context_overflow_attempts + 1,
                         config.context_overflow_max_retries))
    /\ recovery_note' = OverflowNote(context_overflow_attempts + 1,
                                     config.context_overflow_max_retries)
    /\ resume_session' = NoSession
    /\ nFresh' = nFresh + 1
    /\ nWaits' = 0
    /\ nProbes' = 0
    /\ via' = "fresh"
    /\ first_retry' = (via = "first")
    /\ cleared_session' = resume_session
    /\ pc' = "build"
    /\ UNCHANGED <<tasks, no_recovery, config, header_recovery, idx, completed, failed,
                   failed_reasons, pipeline_stopped, ret, exit_code,
                   context_overflow_attempts, result, run_prompt, run_resume, rl_attempt,
                   attempted, cleaned, ended, onlyOverflow, trigger, outcomes, batch,
                   batch_tasks, stop_notices, session_events, interrupted, script_vars>>

\* RetryFresh without the reset of resume_session (line 213).
RetryFresh_KeepSession ==
    /\ pc = "decide"
    /\ ~(is_success(result.error_type) \/ result.error_type = "OnHold")
    /\ should_retry_fresh(result.error_type, context_overflow_attempts, config)
    /\ context_overflow_attempts' = context_overflow_attempts + 1
    /\ Notify(Event("context_overflow", task_num, context_overflow_attempts + 1,
                         config.context_overflow_max_retries))
    /\ recovery_note' = OverflowNote(context_overflow_attempts + 1,
                                     config.context_overflow_max_retries)
    /\ nFresh' = nFresh + 1
    /\ nWaits' = 0
    /\ nProbes' = 0
    /\ via' = "fresh"
    /\ first_retry' = (via = "first")
    /\ cleared_session' = resume_session
    /\ pc' = "build"
    /\ UNCHANGED <<tasks, no_recovery, config, header_recovery, idx, completed, failed,
                   failed_reasons, pipeline_stopped, ret, exit_code, resume_session,
                   result, run_prompt, run_resume, rl_attempt, attempted, cleaned, ended,
                   onlyOverflow, trigger, outcomes, batch, batch_tasks, stop_notices,
                   session_events, interrupted, script_vars>>

\* RetryFresh cleaning the working tree again before the retry.
RetryFresh_Cleanup ==
    /\ pc = "decide"
    /\ ~(is_success(result.error_type) \/ result.error_type = "OnHold")
    /\ should_retry_fresh(result.error_type, context_overflow_attempts, config)
    /\ context_overflow_attempts' = context_overflow_attempts + 1
    /\ Notify(Event("context_overflow", task_num, context_overflow_attempts + 1,
                         config.context_overflow_max_retries))
    /\ recovery_note' = OverflowNote(context_overflow_attempts + 1,
                                     config.context_overflow_max_retries)
    /\ resume_session' = NoSession
    /\ cleaned' = Append(cleaned, task_num)
    /\ nFresh' = nFresh + 1
    /\ nWaits' = 0
    /\ nProbes' = 0
    /\ via' = "fresh"
    /\ first_retry' = (via = "first")
    /\ cleared_session' = resume_session
    /\ pc' = "build"
    /\ UNCHANGED <<tasks, no_recovery, config, header_recovery, idx, completed, failed,
                   failed_reasons, pipeline_stopped, ret, exit_code, result, run_prompt,
                   run_resume, rl_attempt, attempted, ended, onlyOverflow, trigger,
                   outcomes, batch, batch_tasks, stop_notices, session_events,
                   interrupted, script_vars>>

\* Lines 198-214: context overflow, retry with a fresh session.
RetryFresh ==
    /\ pc = "decide"
    /\ ~(is_success(result.error_type) \/ result.error_type = "OnHold")
    /\ should_retry_fresh(result.error_type, context_overflow_attempts, config)
    /\ context_overflow_attempts' = context_overflow_attempts + 1
    /\ Notify(Event("context_overflow", task_num, context_overflow_attempts + 1,
                         config.context_overflow_max_retries))
    /\ recovery_note' = OverflowNote(context_overflow_attempts + 1,
                                     config.context_overflow_max_retries)
    /\ resume_session' = NoSession
    /\ nFresh' = nFresh + 1
    /\ nWaits' = 0
    /\ nProbes' = 0
    /\ via' = "fresh"
    /\ first_retry' = (via = "first")
    /\ cleared_session' = resume_session
    /\ pc' = "build"
    /\ UNCHANGED <<tasks, no_recovery, config, header_recovery, idx, completed, failed,
                   failed_reasons, pipeline_stopped, ret, exit_code, result, run_prompt,
                   run_resume, rl_attempt, attempted, cleaned, ended, onlyOverflow,
                   trigger, outcomes, batch, batch_tasks, stop_notices, session_events,
                   interrupted, script_vars>>

\* Lines 216-233: recoverable error, recovery_loop is entered.
StartRecovery ==
    /\ pc = "decide"
    /\ ~(is_success(result.error_type) \/ result.error_type = "OnHold")
    /\ ~should_retry_fresh(result.error_type, context_overflow_attempts, config)
    /\ should_recover(result.error_type, config)
    /\ rl_attempt' = 1
    /\ nWaits' = 0
    /\ nProbes' = 0
    /\ trigger' = result
    /\ Quiet
    /\ pc' = "rl_top"
    /\ UNCHANGED <<tasks, no_recovery, config, header_recovery, idx, completed, failed,
                   failed_reasons, pipeline_stopped, ret, exit_code,
                   context_overflow_attempts, resume_session, recovery_note, result,
                   run_prompt, run_resume, attempted, cleaned, nFresh, via, first_retry,
                   ended, onlyOverflow, cleared_session, outcomes, batch, batch_tasks,
                   stop_notices, session_events, interrupted, script_vars>>

\* ReturnFailure looping instead of returning (line 249).
ReturnFailure_Retry ==
    /\ pc = "decide"
    /\ ~(is_success(result.error_type) \/ result.error_type = "OnHold")
    /\ ~should_retry_fresh(result.error_type, context_overflow_attempts, config)
    /\ ~should_recover(result.error_type, config)
    /\ Quiet
    /\ pc' = "build"
    /\ UNCHANGED <<tasks, no_recovery, config, header_recovery, idx, completed, failed,
                   failed_reasons, pipeline_stopped, ret, exit_code,
                   context_overflow_attempts, resume_session, recovery_note, result,
                   run_prompt, run_resume, rl_attempt, attempted, cleaned, nFresh,
                   nWaits, nProbes, via, first_retry, ended, onlyOverflow, trigger,
                   cleared_session, outcomes, batch, batch_tasks, stop_notices,
                   session_events, interrupted, script_vars>>

\* Lines 248-249: non-recoverable error.
ReturnFailure ==
    /\ pc = "decide"
    /\ ~(is_success(result.error_type) \/ result.error_type = "OnHold")
    /\ ~should_retry_fresh(result.error_type, context_overflow_attempts, config)
    /\ ~should_recover(result.error_type, config)
    /\ ret' = result
    /\ outcomes' = Append(outcomes, result.error_type)
    /\ ended' = "failed"
    /\ Quiet
    /\ pc' = "classify"
    /\ UNCHANGED <<tasks, no_recovery, config, header_recovery, idx, completed, failed,
                   failed_reasons, pipeline_stopped, exit_code,
                   context_overflow_attempts, resume_session, recovery_note, result,
                   run_prompt, run_resume, rl_attempt, attempted, cleaned, nFresh,
                   nWaits, nProbes, via, first_retry, onlyOverflow, trigger,
                   cleared_session, batch, batch_tasks, stop_notices, session_events,
                   interrupted, script_vars>>

\* ------------------------------------------------------------ recovery_loop

\* on_attempt announcing a zero-based attempt number.
on_attempt_ZeroBased(attempt, max_attempts, delay) ==
    Notify(Event("recovery_start", attempt - 1, max_attempts, delay))

\* Lines 221-223: the callback on_attempt forwards the attempt number, the
\* number of attempts and the delay to the notifier.
on_attempt(attempt, max_attempts, delay) ==
    Notify(Event("recovery_start", attempt, max_attempts, delay))

\* Lines 225-227: the callback on_recovered.
on_recovered ==
    Notify(Event("recovery_success", task_num, 0, 0))

\* recovery_loop: the next configured delay is announced and the sleep starts.
RecoveryAttempt ==
    /\ pc = "rl_top"
    /\ rl_attempt <= Len(config.recovery_delays)
    /\ pc' = "rl_wait"
    /\ on_attempt(rl_attempt, Len(config.recovery_delays),
                  config.recovery_delays[rl_attempt])
    /\ UNCHANGED <<tasks, no_recovery, config, header_recovery, idx, completed, failed,
                   failed_reasons, pipeline_stopped, ret, exit_code,
                   context_overflow_attempts, resume_session, recovery_note, result,
                   run_prompt, run_resume, rl_attempt, attempted, cleaned, nFresh,
                   nWaits, nProbes, via, first_retry, ended, onlyOverflow, trigger,
                   cleared_session, outcomes, batch, batch_tasks, stop_notices,
                   session_events, interrupted, script_vars>>

\* recovery_loop: the sleep of the announced delay ends.
RecoveryWait ==
    /\ pc = "rl_wait"
    /\ nWaits' = nWaits + 1
    /\ Quiet
    /\ pc' = "rl_probe"
    /\ UNCHANGED <<tasks, no_recovery, config, header_recovery, idx, completed, failed,
                   failed_reasons, pipeline_stopped, ret, exit_code,
                   context_overflow_attempts, resume_session, recovery_note, result,
                   run_prompt, run_resume, rl_attempt, attempted, cleaned, nFresh,
                   nProbes, via, first_retry, ended, onlyOverflow, trigger,
                   cleared_session, outcomes, batch, batch_tasks, stop_notices,
                   session_events, interrupted, script_vars>>

\* recovery_loop: the health probe answers unhealthy, the next delay is due.
ProbeUnhealthy ==
    /\ pc = "rl_probe"
    /\ nProbes' = nProbes + 1
    /\ rl_attempt' = rl_attempt + 1
    /\ Quiet
    /\ pc' = "rl_top"
    /\ UNCHANGED <<tasks, no_recovery, config, header_recovery, idx, completed, failed,
                   failed_reasons, pipeline_stopped, ret, exit_code,
                   context_overflow_attempts, resume_session, recovery_note, result,
                   run_prompt, run_resume, attempted, cleaned, nFresh, nWaits, via,
                   first_retry, ended, onlyOverflow, trigger, cleared_session, outcomes,
                   batch, batch_tasks, stop_notices, session_events, interrupted,
                   script_vars>>

\* Recovered without the assignment of resume_session (line 237).
Recovered_KeepSession ==
    /\ pc = "rl_probe"
    /\ nProbes' = nProbes + 1
    /\ recovery_note' = ResumeNote(result.error_type)
    /\ via' = "resume"
    /\ first_retry' = (via = "first")
    /\ pc' = "build"
    /\ on_recovered
    /\ UNCHANGED <<tasks, no_recovery, config, header_recovery, idx, completed, failed,
                   failed_reasons, pipeline_stopped, ret, exit_code,
                   context_overflow_attempts, resume_session, result, run_prompt,
                   run_resume, rl_attempt, attempted, cleaned, nFresh, nWaits, ended,
                   onlyOverflow, trigger, cleared_session, outcomes, batch, batch_tasks,
                   stop_notices, session_events, interrupted, script_vars>>

\* Recovered restarting with a fresh session instead of resuming (line 237).
Recovered_Fresh ==
    /\ pc = "rl_probe"
    /\ nProbes' = nProbes + 1
    /\ resume_session' = NoSession
    /\ recovery_note' = ResumeNote(result.error_type)
    /\ via' = "resume"
    /\ first_retry' = (via = "first")
    /\ pc' = "build"
    /\ on_recovered
    /\ UNCHANGED <<tasks, no_recovery, config, header_recovery, idx, completed, failed,
                   failed_reasons, pipeline_stopped, ret, exit_code,
                   context_overflow_attempts, result, run_prompt, run_resume, rl_attempt,
                   attempted, cleaned, nFresh, nWaits, ended, onlyOverflow, trigger,
                   cleared_session, outcomes, batch, batch_tasks, stop_notices,
                   session_events, interrupted, script_vars>>

\* Recovered resuming with the note of the transition before it.
Recovered_StaleNote ==
    /\ pc = "rl_probe"
    /\ nProbes' = nProbes + 1
    /\ resume_session' = result.session_id
    /\ via' = "resume"
    /\ first_retry' = (via = "first")
    /\ pc' = "build"
    /\ on_recovered
    /\ UNCHANGED <<tasks, no_recovery, config, header_recovery, idx, completed, failed,
                   failed_reasons, pipeline_stopped, ret, exit_code,
                   context_overflow_attempts, recovery_note, result, run_prompt,
                   run_resume, rl_attempt, attempted, cleaned, nFresh, nWaits, ended,
                   onlyOverflow, trigger, cleared_session, outcomes, batch, batch_tasks,
                   stop_notices, session_events, interrupted, script_vars>>

\* Recovered starting the fresh-retry count again.
Recovered_ResetCount ==
    /\ pc = "rl_probe"
    /\ nProbes' = nProbes + 1
    /\ resume_session' = result.session_id
    /\ recovery_note' = ResumeNote(result.error_type)
    /\ context_overflow_attempts' = 0
    /\ via' = "resume"
    /\ first_retry' = (via = "first")
    /\ pc' = "build"
    /\ on_recovered
    /\ UNCHANGED <<tasks, no_recovery, config, header_recovery, idx, completed, failed,
                   failed_reasons, pipeline_stopped, ret, exit_code, result, run_prompt,
                   run_resume, rl_attempt, attempted, cleaned, nFresh, nWaits, ended,
                   onlyOverflow, trigger, cleared_session, outcomes, batch, batch_tasks,
                   stop_notices, session_events, interrupted, script_vars>>

\* recovery_loop answers True after a healthy probe; lines 235-242: the
\* session of the failed attempt is resumed with a resume note.
Recovered ==
    /\ pc = "rl_probe"
    /\ nProbes' = nProbes + 1
    /\ resume_session' = result.session_id
    /\ recovery_note' = ResumeNote(result.error_type)
    /\ via' = "resume"
    /\ first_retry' = (via = "first")
    /\ pc' = "build"
    /\ on_recovered
    /\ UNCHANGED <<tasks, no_recovery, config, header_recovery, idx, completed, failed,
                   failed_reasons, pipeline_stopped, ret, exit_code,
                   context_overflow_attempts, result, run_prompt, run_resume, rl_attempt,
                   attempted, cleaned, nFresh, nWaits, ended, onlyOverflow, trigger,
                   cleared_session, outcomes, batch, batch_tasks, stop_notices,
                   session_events, interrupted, script_vars>>

\* RecoveryExhausted looping instead of returning (line 246).
RecoveryExhausted_Continue ==
    /\ pc = "rl_top"
    /\ rl_attempt > Len(config.recovery_delays)
    /\ ended' = "exhausted"
    /\ Quiet
    /\ pc' = "build"
    /\ UNCHANGED <<tasks, no_recovery, config, header_recovery, idx, completed, failed,
                   failed_reasons, pipeline_stopped, ret, exit_code,
                   context_overflow_attempts, resume_session, recovery_note, result,
                   run_prompt, run_resume, rl_attempt, attempted, cleaned, nFresh,
                   nWaits, nProbes, via, first_retry, onlyOverflow, trigger,
                   cleared_session, outcomes, batch, batch_tasks, stop_notices,
                   session_events, interrupted, script_vars>>

\* recovery_loop answers False when every delay is used; lines 243-246.
RecoveryExhausted ==
    /\ pc = "rl_top"
    /\ rl_attempt > Len(config.recovery_delays)
    /\ ret' = result
    /\ outcomes' = Append(outcomes, result.error_type)
    /\ ended' = "exhausted"
    /\ Quiet
    /\ pc' = "classify"
    /\ UNCHANGED <<tasks, no_recovery, config, header_recovery, idx, completed, failed,
                   failed_reasons, pipeline_stopped, exit_code,
                   context_overflow_attempts, resume_session, recovery_note, result,
                   run_prompt, run_resume, rl_attempt, attempted, cleaned, nFresh,
                   nWaits, nProbes, via, first_retry, onlyOverflow, trigger,
                   cleared_session, batch, batch_tasks, stop_notices, session_events,
                   interrupted, script_vars>>

\* ------------------------------------------------------ operator interrupt

\* An operator interrupt arrives while run_claude runs (lines 186-192) and
\* leaves it as an exception: neither execute_task_with_recovery nor
\* run_implement handles it, so the session ends where it stands, without
\* classification, summary or exit code. (When run_claude answers the
\* interrupt with an outcome of its own, the step is one of AgentReturns.)
InterruptInvocationRaises ==
    /\ pc = "running"
    /\ ~interrupted
    /\ interrupted' = TRUE
    /\ ret' = NoResult
    /\ Quiet
    /\ context_overflow_attempts' = 0
    /\ resume_session' = NoSession
    /\ recovery_note' = NoNote
    /\ result' = NoResult
    /\ run_prompt' = NoPrompt
    /\ run_resume' = NoSession
    /\ rl_attempt' = 0
    /\ nFresh' = 0
    /\ nWaits' = 0
    /\ nProbes' = 0
    /\ via' = "first"
    /\ ended' = "no"
    /\ onlyOverflow' = TRUE
    /\ first_retry' = FALSE
    /\ trigger' = NoResult
    /\ cleared_session' = NoSession
    /\ pc' = "interrupted"
    /\ UNCHANGED <<tasks, no_recovery, config, header_recovery, idx, completed, failed,
                   failed_reasons, pipeline_stopped, exit_code, attempted, cleaned,
                   outcomes, batch, batch_tasks, stop_notices, session_events,
                   script_vars>>

\* An operator interrupt arrives during the sleep of recovery_loop (lines
\* 229-233) and leaves it as an exception, which nothing in
\* execute_task_with_recovery or run_implement handles.
InterruptWaitRaises ==
    /\ pc = "rl_wait"
    /\ ~interrupted
    /\ interrupted' = TRUE
    /\ ret' = NoResult
    /\ Quiet
    /\ context_overflow_attempts' = 0
    /\ resume_session' = NoSession
    /\ recovery_note' = NoNote
    /\ result' = NoResult
    /\ run_prompt' = NoPrompt
    /\ run_resume' = NoSession
    /\ rl_attempt' = 0
    /\ nFresh' = 0
    /\ nWaits' = 0
    /\ nProbes' = 0
    /\ via' = "first"
    /\ ended' = "no"
    /\ onlyOverflow' = TRUE
    /\ first_retry' = FALSE
    /\ trigger' = NoResult
    /\ cleared_session' = NoSession
    /\ pc' = "interrupted"
    /\ UNCHANGED <<tasks, no_recovery, config, header_recovery, idx, completed, failed,
                   failed_reasons, pipeline_stopped, exit_code, attempted, cleaned,
                   outcomes, batch, batch_tasks, stop_notices, session_events,
                   script_vars>>

\* An operator interrupt arrives during the sleep of recovery_loop, and
\* recovery_loop gives up and answers False: lines 243-246 return the
\* outcome of the failed attempt.
InterruptWaitReturns ==
    /\ pc = "rl_wait"
    /\ ~interrupted
    /\ interrupted' = TRUE
    /\ ret' = result
    /\ outcomes' = Append(outcomes, result.error_type)
    /\ ended' = "interrupted"
    /\ Quiet
    /\ pc' = "classify"
    /\ UNCHANGED <<tasks, no_recovery, config, header_recovery, idx, completed, failed,
                   failed_reasons, pipeline_stopped, exit_code,
                   context_overflow_attempts, resume_session, recovery_note, result,
                   run_prompt, run_resume, rl_attempt, attempted, cleaned, nFresh,
                   nWaits, nProbes, via, first_retry, onlyOverflow, trigger,
                   cleared_session, batch, batch_tasks, stop_notices, session_events,
                   script_vars>>

\* ------------------------------------------- run_implement, after the task

\* Lines 107-110: the task completed. In each of the four branches the
\* locals of execute_task_with_recovery and the returned result are dead
\* once the branch is done.
ClassifyCompleted ==
    /\ pc = "classify"
    /\ is_success(ret.error_type)
    /\ completed' = Append(completed, task_num)
    /\ Quiet
    /\ idx' = idx + 1
    /\ pc' = "loop"
    /\ ret' = NoResult
    /\ context_overflow_attempts' = 0
    /\ resume_session' = NoSession
    /\ recovery_note' = NoNote
    /\ result' = NoResult
    /\ run_prompt' = NoPrompt
    /\ run_resume' = NoSession
    /\ rl_attempt' = 0
    /\ nFresh' = 0
    /\ nWaits' = 0
    /\ nProbes' = 0
    /\ via' = "first"
    /\ ended' = "no"
    /\ onlyOverflow' = TRUE
    /\ first_retry' = FALSE
    /\ trigger' = NoResult
    /\ cleared_session' = NoSession
    /\ UNCHANGED <<tasks, no_recovery, config, header_recovery, failed, failed_reasons,
                   pipeline_stopped, exit_code, attempted, cleaned, outcomes, batch,
                   batch_tasks, stop_notices, session_events, interrupted, script_vars>>

\* ClassifyOnHold recording the task as failed.
ClassifyOnHold_AsFailed ==
    /\ pc = "classify"
    /\ ~is_success(ret.error_type)
    /\ ret.error_type = "OnHold"
    /\ failed' = Append(failed, task_num)
    /\ failed_reasons' = Append(failed_reasons, ret.error_type)
    /\ Quiet
    /\ idx' = idx + 1
    /\ pc' = "loop"
    /\ ret' = NoResult
    /\ context_overflow_attempts' = 0
    /\ resume_session' = NoSession
    /\ recovery_note' = NoNote
    /\ result' = NoResult
    /\ run_prompt' = NoPrompt
    /\ run_resume' = NoSession
    /\ rl_attempt' = 0
    /\ nFresh' = 0
    /\ nWaits' = 0
    /\ nProbes' = 0
    /\ via' = "first"
    /\ ended' = "no"
    /\ onlyOverflow' = TRUE
    /\ first_retry' = FALSE
    /\ trigger' = NoResult
    /\ cleared_session' = NoSession
    /\ UNCHANGED <<tasks, no_recovery, config, header_recovery, completed,
                   pipeline_stopped, exit_code, attempted, cleaned, outcomes, batch,
                   batch_tasks, stop_notices, session_events, interrupted, script_vars>>

\* Lines 112-115: the task is on hold, neither completed nor failed.
ClassifyOnHold ==
    /\ pc = "classify"
    /\ ~is_success(ret.error_type)
    /\ ret.error_type = "OnHold"
    /\ Quiet
    /\ idx' = idx + 1
    /\ pc' = "loop"
    /\ ret' = NoResult
    /\ context_overflow_attempts' = 0
    /\ resume_session' = NoSession
    /\ recovery_note' = NoNote
    /\ result' = NoResult
    /\ run_prompt' = NoPrompt
    /\ run_resume' = NoSession
    /\ rl_attempt' = 0
    /\ nFresh' = 0
    /\ nWaits' = 0
    /\ nProbes' = 0
    /\ via' = "first"
    /\ ended' = "no"
    /\ onlyOverflow' = TRUE
    /\ first_retry' = FALSE
    /\ trigger' = NoResult
    /\ cleared_session' = NoSession
    /\ UNCHANGED <<tasks, no_recovery, config, header_recovery, completed, failed,
                   failed_reasons, pipeline_stopped, exit_code, attempted, cleaned,
                   outcomes, batch, batch_tasks, stop_notices, session_events,
                   interrupted, script_vars>>

\* ClassifyFatal without pipeline_stopped = True (line 122).
ClassifyFatal_NoStop ==
    /\ pc = "classify"
    /\ ~is_success(ret.error_type)
    /\ ret.error_type # "OnHold"
    /\ is_fatal(ret.error_type)
    /\ failed' = Append(failed, task_num)
    /\ failed_reasons' = Append(failed_reasons, ret.error_type)
    /\ Notify(Event("pipeline_stopped", task_num, 0, 0))
    /\ session_events' = Append(session_events, "pipeline_stopped")
    /\ stop_notices' = stop_notices + 1
    /\ idx' = idx + 1
    /\ pc' = "loop"
    /\ ret' = NoResult
    /\ context_overflow_attempts' = 0
    /\ resume_session' = NoSession
    /\ recovery_note' = NoNote
    /\ result' = NoResult
    /\ run_prompt' = NoPrompt
    /\ run_resume' = NoSession
    /\ rl_attempt' = 0
    /\ nFresh' = 0
    /\ nWaits' = 0
    /\ nProbes' = 0
    /\ via' = "first"
    /\ ended' = "no"
    /\ onlyOverflow' = TRUE
    /\ first_retry' = FALSE
    /\ trigger' = NoResult
    /\ cleared_session' = NoSession
    /\ UNCHANGED <<tasks, no_recovery, config, header_recovery, completed,
                   pipeline_stopped, exit_code, attempted, cleaned, outcomes, batch,
                   batch_tasks, interrupted, script_vars>>

\* ClassifyFatal announcing the outcome with task_failed (line 123).
ClassifyFatal_TaskFailed ==
    /\ pc = "classify"
    /\ ~is_success(ret.error_type)
    /\ ret.error_type # "OnHold"
    /\ is_fatal(ret.error_type)
    /\ failed' = Append(failed, task_num)
    /\ failed_reasons' = Append(failed_reasons, ret.error_type)
    /\ pipeline_stopped' = TRUE
    /\ Notify(Event("task_failed", task_num, 0, 0))
    /\ idx' = idx + 1
    /\ pc' = "loop"
    /\ ret' = NoResult
    /\ context_overflow_attempts' = 0
    /\ resume_session' = NoSession
    /\ recovery_note' = NoNote
    /\ result' = NoResult
    /\ run_prompt' = NoPrompt
    /\ run_resume' = NoSession
    /\ rl_attempt' = 0
    /\ nFresh' = 0
    /\ nWaits' = 0
    /\ nProbes' = 0
    /\ via' = "first"
    /\ ended' = "no"
    /\ onlyOverflow' = TRUE
    /\ first_retry' = FALSE
    /\ trigger' = NoResult
    /\ cleared_session' = NoSession
    /\ UNCHANGED <<tasks, no_recovery, config, header_recovery, completed, exit_code,
                   attempted, cleaned, outcomes, batch, batch_tasks, stop_notices,
                   session_events, interrupted, script_vars>>

\* ClassifyFatal recording the task without its reason.
ClassifyFatal_NoReason ==
    /\ pc = "classify"
    /\ ~is_success(ret.error_type)
    /\ ret.error_type # "OnHold"
    /\ is_fatal(ret.error_type)
    /\ failed' = Append(failed, task_num)
    /\ pipeline_stopped' = TRUE
    /\ Notify(Event("pipeline_stopped", task_num, 0, 0))
    /\ session_events' = Append(session_events, "pipeline_stopped")
    /\ stop_notices' = stop_notices + 1
    /\ idx' = idx + 1
    /\ pc' = "loop"
    /\ ret' = NoResult
    /\ context_overflow_attempts' = 0
    /\ resume_session' = NoSession
    /\ recovery_note' = NoNote
    /\ result' = NoResult
    /\ run_prompt' = NoPrompt
    /\ run_resume' = NoSession
    /\ rl_attempt' = 0
    /\ nFresh' = 0
    /\ nWaits' = 0
    /\ nProbes' = 0
    /\ via' = "first"
    /\ ended' = "no"
    /\ onlyOverflow' = TRUE
    /\ first_retry' = FALSE
    /\ trigger' = NoResult
    /\ cleared_session' = NoSession
    /\ UNCHANGED <<tasks, no_recovery, config, header_recovery, completed,
                   failed_reasons, exit_code, attempted, cleaned, outcomes, batch,
                   batch_tasks, interrupted, script_vars>>

\* Lines 117-123: fatal error, the pipeline is stopped.
ClassifyFatal ==
    /\ pc = "classify"
    /\ ~is_success(ret.error_type)
    /\ ret.error_type # "OnHold"
    /\ is_fatal(ret.error_type)
    /\ failed' = Append(failed, task_num)
    /\ failed_reasons' = Append(failed_reasons, ret.error_type)
    /\ pipeline_stopped' = TRUE
    /\ Notify(Event("pipeline_stopped", task_num, 0, 0))
    /\ session_events' = Append(session_events, "pipeline_stopped")
    /\ stop_notices' = stop_notices + 1
    /\ idx' = idx + 1
    /\ pc' = "loop"
    /\ ret' = NoResult
    /\ context_overflow_attempts' = 0
    /\ resume_session' = NoSession
    /\ recovery_note' = NoNote
    /\ result' = NoResult
    /\ run_prompt' = NoPrompt
    /\ run_resume' = NoSession
    /\ rl_attempt' = 0
    /\ nFresh' = 0
    /\ nWaits' = 0
    /\ nProbes' = 0
    /\ via' = "first"
    /\ ended' = "no"
    /\ onlyOverflow' = TRUE
    /\ first_retry' = FALSE
    /\ trigger' = NoResult
    /\ cleared_session' = NoSession
    /\ UNCHANGED <<tasks, no_recovery, config, header_recovery, completed, exit_code,
                   attempted, cleaned, outcomes, batch, batch_tasks, interrupted,
                   script_vars>>

\* ClassifyFailed stopping the pipeline like a fatal outcome.
ClassifyFailed_Stop ==
    /\ pc = "classify"
    /\ ~is_success(ret.error_type)
    /\ ret.error_type # "OnHold"
    /\ ~is_fatal(ret.error_type)
    /\ failed' = Append(failed, task_num)
    /\ failed_reasons' = Append(failed_reasons, ret.error_type)
    /\ pipeline_stopped' = TRUE
    /\ Notify(Event("task_failed", task_num, 0, 0))
    /\ idx' = idx + 1
    /\ pc' = "loop"
    /\ ret' = NoResult
    /\ context_overflow_attempts' = 0
    /\ resume_session' = NoSession
    /\ recovery_note' = NoNote
    /\ result' = NoResult
    /\ run_prompt' = NoPrompt
    /\ run_resume' = NoSession
    /\ rl_attempt' = 0
    /\ nFresh' = 0
    /\ nWaits' = 0
    /\ nProbes' = 0
    /\ via' = "first"
    /\ ended' = "no"
    /\ onlyOverflow' = TRUE
    /\ first_retry' = FALSE
    /\ trigger' = NoResult
    /\ cleared_session' = NoSession
    /\ UNCHANGED <<tasks, no_recovery, config, header_recovery, completed, exit_code,
                   attempted, cleaned, outcomes, batch, batch_tasks, stop_notices,
                   session_events, interrupted, script_vars>>

\* ClassifyFailed stopping the pipeline when task_failed could not be delivered.
ClassifyFailed_NeedsDelivery ==
    /\ pc = "classify"
    /\ ~is_success(ret.error_type)
    /\ ret.error_type # "OnHold"
    /\ ~is_fatal(ret.error_type)
    /\ failed' = Append(failed, task_num)
    /\ failed_reasons' = Append(failed_reasons, ret.error_type)
    /\ idx' = idx + 1
    /\ pc' = "loop"
    /\ ret' = NoResult
    /\ context_overflow_attempts' = 0
    /\ resume_session' = NoSession
    /\ recovery_note' = NoNote
    /\ result' = NoResult
    /\ run_prompt' = NoPrompt
    /\ run_resume' = NoSession
    /\ rl_attempt' = 0
    /\ nFresh' = 0
    /\ nWaits' = 0
    /\ nProbes' = 0
    /\ via' = "first"
    /\ ended' = "no"
    /\ onlyOverflow' = TRUE
    /\ first_retry' = FALSE
    /\ trigger' = NoResult
    /\ cleared_session' = NoSession
    /\ notified' = Event("task_failed", task_num, 0, 0)
    /\ \E status \in DeliveryStatus :
        /\ delivery' = Delivery(status)
        /\ pipeline_stopped' = ~Notifier_send(status)
    /\ UNCHANGED <<tasks, no_recovery, config, header_recovery, completed, exit_code,
                   attempted, cleaned, outcomes, batch, batch_tasks, stop_notices,
                   session_events, interrupted, script_vars>>

\* Lines 125-130: ordinary failure, the pipeline continues.
ClassifyFailed ==
    /\ pc = "classify"
    /\ ~is_success(ret.error_type)
    /\ ret.error_type # "OnHold"
    /\ ~is_fatal(ret.error_type)
    /\ failed' = Append(failed, task_num)
    /\ failed_reasons' = Append(failed_reasons, ret.error_type)
    /\ Notify(Event("task_failed", task_num, 0, 0))
    /\ idx' = idx + 1
    /\ pc' = "loop"
    /\ ret' = NoResult
    /\ context_overflow_attempts' = 0
    /\ resume_session' = NoSession
    /\ recovery_note' = NoNote
    /\ result' = NoResult
    /\ run_prompt' = NoPrompt
    /\ run_resume' = NoSession
    /\ rl_attempt' = 0
    /\ nFresh' = 0
    /\ nWaits' = 0
    /\ nProbes' = 0
    /\ via' = "first"
    /\ ended' = "no"
    /\ onlyOverflow' = TRUE
    /\ first_retry' = FALSE
    /\ trigger' = NoResult
    /\ cleared_session' = NoSession
    /\ UNCHANGED <<tasks, no_recovery, config, header_recovery, completed,
                   pipeline_stopped, exit_code, attempted, cleaned, outcomes, batch,
                   batch_tasks, stop_notices, session_events, interrupted, script_vars>>

\* The exit code with the two cases exchanged.
ExitCode_Inverted(failedList) == IF failedList = <<>> THEN 1 ELSE 0

\* Line 159: the exit code of run_implement.
ExitCode(failedList) == IF failedList = <<>> THEN 0 ELSE 1

\* FinishNoBatch returning without session_complete.
FinishNoBatch_NoNotice ==
    /\ pc = "summary"
    /\ completed = <<>>
    /\ Quiet
    /\ exit_code' = ExitCode(failed)
    /\ pc' = "done"
    /\ UNCHANGED <<tasks, no_recovery, config, header_recovery, idx, completed, failed,
                   failed_reasons, pipeline_stopped, ret, context_overflow_attempts,
                   resume_session, recovery_note, result, run_prompt, run_resume,
                   rl_attempt, attempted, cleaned, nFresh, nWaits, nProbes, via,
                   first_retry, ended, onlyOverflow, trigger, cleared_session, outcomes,
                   batch, batch_tasks, stop_notices, session_events, interrupted,
                   script_vars>>

\* Lines 132-159: summary and session_complete; no task completed, so no
\* batch check, and run_implement returns.
FinishNoBatch ==
    /\ pc = "summary"
    /\ completed = <<>>
    /\ Notify(Event("session_complete", Len(completed), Len(failed), 0))
    /\ session_events' = Append(session_events, "session_complete")
    /\ exit_code' = ExitCode(failed)
    /\ pc' = "done"
    /\ UNCHANGED <<tasks, no_recovery, config, header_recovery, idx, completed, failed,
                   failed_reasons, pipeline_stopped, ret, context_overflow_attempts,
                   resume_session, recovery_note, result, run_prompt, run_resume,
                   rl_attempt, attempted, cleaned, nFresh, nWaits, nProbes, via,
                   first_retry, ended, onlyOverflow, trigger, cleared_session, outcomes,
                   batch, batch_tasks, stop_notices, interrupted, script_vars>>

\* Lines 132-157: summary and session_complete; run_batch_check is started
\* with the completed tasks.
StartBatchCheck ==
    /\ pc = "summary"
    /\ completed # <<>>
    /\ Notify(Event("session_complete", Len(completed), Len(failed), 0))
    /\ session_events' = Append(session_events, "session_complete")
    /\ batch' = "running"
    /\ batch_tasks' = completed
    /\ pc' = "batch"
    /\ UNCHANGED <<tasks, no_recovery, config, header_recovery, idx, completed, failed,
                   failed_reasons, pipeline_stopped, ret, exit_code,
                   context_overflow_attempts, resume_session, recovery_note, result,
                   run_prompt, run_resume, rl_attempt, attempted, cleaned, nFresh,
                   nWaits, nProbes, via, first_retry, ended, onlyOverflow, trigger,
                   cleared_session, outcomes, stop_notices, interrupted, script_vars>>

\* FinishBatchCheck with an error of the batch check turned into exit code 1.
FinishBatchCheck_Propagate ==
    /\ pc = "batch"
    /\ Quiet
    /\ pc' = "done"
    /\ \E batch_ok \in BOOLEAN :
        /\ batch' = IF batch_ok THEN "ok" ELSE "error"
        /\ exit_code' = IF batch_ok THEN ExitCode(failed) ELSE 1
    /\ UNCHANGED <<tasks, no_recovery, config, header_recovery, idx, completed, failed,
                   failed_reasons, pipeline_stopped, ret, context_overflow_attempts,
                   resume_session, recovery_note, result, run_prompt, run_resume,
                   rl_attempt, attempted, cleaned, nFresh, nWaits, nProbes, via,
                   first_retry, ended, onlyOverflow, trigger, cleared_session, outcomes,
                   batch_tasks, stop_notices, session_events, interrupted, script_vars>>

\* Lines 252-301 and 159: run_batch_check ends, normally or with an error
\* of its own that the except clause of line 300 reports, and run_implement
\* returns.
FinishBatchCheck ==
    /\ pc = "batch"
    /\ Quiet
    /\ pc' = "done"
    /\ \E batch_ok \in BOOLEAN :
        /\ batch' = IF batch_ok THEN "ok" ELSE "error"
        /\ exit_code' = ExitCode(failed)
    /\ UNCHANGED <<tasks, no_recovery, config, header_recovery, idx, completed, failed,
                   failed_reasons, pipeline_stopped, ret, context_overflow_attempts,
                   resume_session, recovery_note, result, run_prompt, run_resume,
                   rl_attempt, attempted, cleaned, nFresh, nWaits, nProbes, via,
                   first_retry, ended, onlyOverflow, trigger, cleared_session, outcomes,
                   batch_tasks, stop_notices, session_events, interrupted, script_vars>>

\* ------------------------------------------------------------ specification
Next ==
    \/ StartNoTasks
    \/ StartSession
    \/ StartTask
    \/ LeaveLoop
    \/ InvokeAgent
    \/ AgentReturns
    \/ ReturnDone
    \/ RetryFresh
    \/ StartRecovery
    \/ ReturnFailure
    \/ RecoveryAttempt
    \/ RecoveryWait
    \/ ProbeUnhealthy
    \/ Recovered
    \/ RecoveryExhausted
    \/ InterruptInvocationRaises
    \/ InterruptWaitRaises
    \/ InterruptWaitReturns
    \/ ClassifyCompleted
    \/ ClassifyOnHold
    \/ ClassifyFatal
    \/ ClassifyFailed
    \/ FinishNoBatch
    \/ StartBatchCheck
    \/ FinishBatchCheck

Spec == Init /\ [][Next]_vars

QueueSpec == QueueInit /\ [][Next]_vars

\* One task (or none) with recovery enabled, one delay and one fresh retry;
\* the single thread of control always takes its next step.
FairInit ==
    InitWith({q \in TaskLists : Len(q) <= 1},
             {c \in Configs : /\ c.recovery_enabled
                              /\ Len(c.recovery_delays) = 1
                              /\ c.context_overflow_max_retries = 1})

FairSpec == FairInit /\ [][Next]_vars /\ WF_vars(Next)

\* ------------------------------------------------------------------ helpers
Range(s) == {s[i] : i \in 1..Len(s)}

InTask == pc \in {"build", "running", "decide", "rl_top", "rl_wait", "rl_probe"}

InRecovery == pc \in {"rl_top", "rl_wait", "rl_probe"}

\* The state of the pipeline: every variable but the notification channel.
pipeline ==
    <<pc, tasks, no_recovery, config, header_recovery, idx, completed, failed,
      failed_reasons, pipeline_stopped, ret, exit_code, context_overflow_attempts,
      resume_session, recovery_note, result, run_prompt, run_resume, rl_attempt,
      notified, attempted, cleaned, outcomes, nFresh, nWaits, nProbes, via,
      first_retry, ended, onlyOverflow, trigger, cleared_session, batch,
      batch_tasks, stop_notices, session_events, interrupted>>

\* ---------------------------------------------------------- stream-json
\* The bound on the lines of a stream (the output of the probe, the input of
\* format-output.py), on the lines of an .env file and on the Telegram
\* requests of one Notifier.
MaxLines == 3
MaxEnvLines == 2
MaxSends == 2

\* A text is modelled by the set of the words it contains: "w in text" is
\* membership, joining texts is union, the empty string is the empty set.
MarkerWords ==
    {"401", "429", "529", "rate", "Rate", "overloaded", "unauthorized", "Unauthorized"}

Texts == SUBSET MarkerWords

ResultTexts == {{}, {"OK"}, {"ok"}, {"hello"}}

contains(text, w) == w \in text

\* str.lower() and str.upper(), word by word.
lower_word(w) ==
    CASE w = "Rate" -> "rate"
      [] w = "Unauthorized" -> "unauthorized"
      [] w = "OK" -> "ok"
      [] OTHER -> w

upper_word(w) ==
    CASE w \in {"rate", "Rate"} -> "RATE"
      [] w = "overloaded" -> "OVERLOADED"
      [] w \in {"unauthorized", "Unauthorized"} -> "UNAUTHORIZED"
      [] w = "ok" -> "OK"
      [] w = "hello" -> "HELLO"
      [] OTHER -> w

lower(text) == {lower_word(w) : w \in text}

upper(text) == {upper_word(w) : w \in text}

NoUsage == [input_tokens |-> 0, cache_read_input_tokens |-> 0, output_tokens |-> 0]

\* One line of a stream: a JSON object with the keys the scripts read (an
\* absent key has the default its reader passes to data.get), a JSON value
\* that is no object ("value"), a line json.loads rejects ("malformed", with
\* the words it contains) or an empty line ("blank").
JsonObject ==
    [json |-> "object", type |-> "", subtype |-> "", is_error |-> FALSE,
     error_code |-> {}, errors |-> <<>>, result |-> {}, usage |-> NoUsage,
     total_cost_usd |-> 0, content |-> <<>>, text |-> {}]

Malformed(t) == [JsonObject EXCEPT !.json = "malformed", !.text = t]

NonObject == [JsonObject EXCEPT !.json = "value"]

Blank == [JsonObject EXCEPT !.json = "blank"]

ErrorRecord(code, errors, text) ==
    [JsonObject EXCEPT !.type = "result", !.subtype = "error_during_execution",
                       !.is_error = TRUE, !.error_code = code, !.errors = errors,
                       !.result = text]

ResultRecord(text, tokens, cost) ==
    [JsonObject EXCEPT !.type = "result", !.subtype = "success", !.result = text,
                       !.usage = [input_tokens |-> tokens,
                                  cache_read_input_tokens |-> tokens,
                                  output_tokens |-> tokens],
                       !.total_cost_usd = cost]

AssistantRecord(content, tokens) ==
    [JsonObject EXCEPT !.type = "assistant", !.content = content,
                       !.usage = [NoUsage EXCEPT !.output_tokens = tokens]]

InitRecord == [JsonObject EXCEPT !.type = "system", !.subtype = "init"]

\* ------------------------------------------------------- health_check.py
EXIT_HEALTHY == 0
EXIT_AUTH_ERROR == 1
EXIT_RATE_LIMITED == 2
EXIT_OTHER_ERROR == 3
EXIT_OVERLOADED == 4

HealthResult(code, status, detail) == [code |-> code, status |-> status, detail |-> detail]

\* data = None, and an exception raised inside the try block of check_health.
NoData == [JsonObject EXCEPT !.json = "none"]

Raised == HealthResult(-1, "raised", {})

\* Lines 62-68, for line i and the lines before it: data is the last line
\* json.loads accepted; the loop stops at a result record and skips the
\* lines that raise JSONDecodeError; data.get of a value that is no object
\* raises AttributeError.
RECURSIVE last_result(_, _, _)
last_result(lines, i, data) ==
    IF i = 0 THEN [raised |-> FALSE, data |-> data]
    ELSE IF lines[i].json \in {"malformed", "blank"} THEN last_result(lines, i - 1, data)
    ELSE IF lines[i].json = "value" THEN [raised |-> TRUE, data |-> lines[i]]
    ELSE IF lines[i].type = "result" THEN [raised |-> FALSE, data |-> lines[i]]
    ELSE last_result(lines, i - 1, lines[i])

\* Line 53: stdout + stderr as one text.
output_of(lines) == UNION {lines[i].text : i \in 1..Len(lines)}

\* Line 85: the errors joined, or the result when there are none.
error_msg(data) ==
    IF data.errors # <<>>
    THEN UNION {data.errors[i] : i \in 1..Len(data.errors)}
    ELSE data.result

\* Lines 70-78: no line was JSON, the raw output is searched.
classify_output(output) ==
    IF contains(output, "401") \/ contains(lower(output), "Unauthorized")
    THEN HealthResult(EXIT_AUTH_ERROR, "AUTH_ERROR", {})
    ELSE IF contains(output, "429") \/ contains(lower(output), "rate")
    THEN HealthResult(EXIT_RATE_LIMITED, "RATE_LIMITED", {})
    ELSE IF contains(output, "529") \/ contains(lower(output), "overloaded")
    THEN HealthResult(EXIT_OVERLOADED, "OVERLOADED", {})
    ELSE HealthResult(EXIT_OTHER_ERROR, "PARSE_ERROR", output)

\* classify_error that looks for the overload markers before the rate-limit
\* markers.
classify_error_OverloadFirst(data) ==
    LET msg == error_msg(data)
    IN  IF contains(data.error_code, "401") \/ contains(msg, "401")
        THEN HealthResult(EXIT_AUTH_ERROR, "AUTH_ERROR", msg)
        ELSE IF \/ contains(data.error_code, "529")
                \/ contains(msg, "529")
                \/ contains(lower(msg), "overloaded")
        THEN HealthResult(EXIT_OVERLOADED, "OVERLOADED", msg)
        ELSE IF \/ contains(data.error_code, "429")
                \/ contains(msg, "429")
                \/ contains(lower(msg), "rate")
        THEN HealthResult(EXIT_RATE_LIMITED, "RATE_LIMITED", msg)
        ELSE HealthResult(EXIT_OTHER_ERROR, "API_ERROR", msg)

\* Lines 82-95: a result record with is_error.
classify_error(data) ==
    LET msg == error_msg(data)
    IN  IF contains(data.error_code, "401") \/ contains(msg, "401")
        THEN HealthResult(EXIT_AUTH_ERROR, "AUTH_ERROR", msg)
        ELSE IF \/ contains(data.error_code, "429")
                \/ contains(msg, "429")
                \/ contains(lower(msg), "rate")
        THEN HealthResult(EXIT_RATE_LIMITED, "RATE_LIMITED", msg)
        ELSE IF \/ contains(data.error_code, "529")
                \/ contains(msg, "529")
                \/ contains(lower(msg), "overloaded")
        THEN HealthResult(EXIT_OVERLOADED, "OVERLOADED", msg)
        ELSE HealthResult(EXIT_OTHER_ERROR, "API_ERROR", msg)

\* Lines 53-107: the try block once subprocess.run has returned.
check_output(lines) ==
    LET found == last_result(lines, Len(lines), NoData)
        data == found.data
    IN  IF found.raised THEN Raised
        ELSE IF data = NoData THEN classify_output(output_of(lines))
        ELSE IF data.type = "result" /\ data.is_error THEN classify_error(data)
        ELSE IF /\ data.type = "result"
                /\ (contains(upper(data.result), "OK") \/ data.result # {})
        THEN HealthResult(EXIT_HEALTHY, "HEALTHY", {})
        ELSE IF data.usage.output_tokens > 0
        THEN HealthResult(EXIT_HEALTHY, "HEALTHY", {})
        ELSE HealthResult(EXIT_OTHER_ERROR, "NO_RESPONSE", {})

\* check_health whose last except clause is missing: what the try block
\* raises leaves the function.
check_health_NoCatchAll(p) ==
    CASE p.behaviour = "timeout" -> HealthResult(EXIT_OTHER_ERROR, "TIMEOUT", {})
      [] p.behaviour = "not_found" -> HealthResult(EXIT_OTHER_ERROR, "NOT_FOUND", {})
      [] p.behaviour = "error" -> Raised
      [] OTHER -> check_output(p.lines)

\* Lines 40-114: check_health for one behaviour of the probe: subprocess.run
\* returns the output, or raises TimeoutExpired, FileNotFoundError or another
\* exception; the three except clauses turn every exception into a result.
check_health(p) ==
    CASE p.behaviour = "timeout" -> HealthResult(EXIT_OTHER_ERROR, "TIMEOUT", {})
      [] p.behaviour = "not_found" -> HealthResult(EXIT_OTHER_ERROR, "NOT_FOUND", {})
      [] p.behaviour = "error" -> HealthResult(EXIT_OTHER_ERROR, "EXCEPTION", {})
      [] OTHER -> IF check_output(p.lines) = Raised
                  THEN HealthResult(EXIT_OTHER_ERROR, "EXCEPTION", {})
                  ELSE check_output(p.lines)

\* ------------------------------------------------------------ the streams
Codes == {{}, {"401"}, {"429"}, {"529"}, {"unauthorized"}}

\* Error records with the message in errors or in result.
ErrorRecords ==
    {ErrorRecord(c, <<t>>, {}) : c \in Codes, t \in Texts}
        \cup {ErrorRecord(c, <<>>, t) : c \in Codes, t \in Texts}

ResultRecords == {ResultRecord(r, n, n) : r \in ResultTexts, n \in {0, 1}}

Contents ==
    {<<>>,
     <<[type |-> "text", text |-> {"hello"}, name |-> ""]>>,
     <<[type |-> "text", text |-> {}, name |-> ""]>>,
     <<[type |-> "tool_use", text |-> {}, name |-> "Bash"]>>,
     <<[type |-> "text", text |-> {"hello"}, name |-> ""],
       [type |-> "tool_use", text |-> {}, name |-> "Bash"]>>}

AssistantRecords == {AssistantRecord(c, n) : c \in Contents, n \in {0, 1}}

\* Every kind of line once.
JsonLines ==
    ErrorRecords \cup ResultRecords \cup AssistantRecords
        \cup {Malformed(t) : t \in Texts} \cup {NonObject, Blank, InitRecord}

\* The result record of a run that failed after it used tokens.
FailedRunRecord ==
    [ErrorRecord({"529"}, <<>>, {}) EXCEPT
         !.usage = [input_tokens |-> 2, cache_read_input_tokens |-> 1,
                    output_tokens |-> 1],
         !.total_cost_usd = 1]

\* The lines of the longer streams.
StreamLines ==
    {Malformed({}), Malformed({"529"}), NonObject,
     ErrorRecord({"429"}, <<>>, {"overloaded"}),
     ResultRecord({"OK"}, 1, 2),
     FailedRunRecord,
     AssistantRecord(<<[type |-> "tool_use", text |-> {}, name |-> "Bash"]>>, 0)}

Streams ==
    {<<l>> : l \in JsonLines}
        \cup UNION {[1..n -> StreamLines] : n \in 0..MaxLines}

Probes ==
    {[behaviour |-> b, lines |-> <<>>] : b \in {"timeout", "not_found", "error"}}
        \cup {[behaviour |-> "output", lines |-> s] : s \in Streams}

\* main of health_check.py: check_health runs and its code is the exit code.
CheckHealth ==
    /\ program = "health_check"
    /\ step = "start"
    /\ health' = check_health(probe)
    /\ step' = "exit"
    /\ UNCHANGED <<pipeline, delivery, command_vars, program, probe, stdin, line_no, session_stats,
                   rendered, env_file, env_vars, loaded_config, notifier,
                   network_sends>>

\* ------------------------------------------------------ format-output.py
\* What process_line returns: None, or the text of one of its four shapes
\* (the session line, the error line with its details, the metrics line
\* with its three numbers, the texts and tool calls of an assistant message).
Rendered(kind, details, input_t, output_t, cost) ==
    [kind |-> kind, details |-> details, input_t |-> input_t, output_t |-> output_t,
     cost |-> cost]

NoLine == Rendered("None", <<>>, 0, 0, 0)

\* The traceback of an exception that leaves process_line.
Traceback == Rendered("Traceback", <<>>, 0, 0, 0)

\* Lines 169-180.
process_init(data) == Rendered("init", <<>>, 0, 0, 0)

\* Lines 203-216: the details of the error line.
error_details(data) ==
    LET details ==
            (IF data.error_code # {} THEN <<<<"code", data.error_code>>>> ELSE <<>>)
                \o (IF data.subtype # "" THEN <<<<"type", {data.subtype}>>>> ELSE <<>>)
                \o (IF data.result # {} THEN <<<<"msg", data.result>>>> ELSE <<>>)
    IN  IF details = <<>> THEN <<<<"keys", {}>>>> ELSE details

\* process_result whose metrics line shows the totals of the session.
process_result_ShowTotals(data, stats) ==
    LET input_t == data.usage.input_tokens + data.usage.cache_read_input_tokens
        output_t == data.usage.output_tokens
        totals == [stats EXCEPT !.input_tokens = @ + input_t,
                                !.output_tokens = @ + output_t,
                                !.cache_read = @ + data.usage.cache_read_input_tokens,
                                !.cost_usd = @ + data.total_cost_usd]
    IN  [out |-> IF data.is_error
                 THEN Rendered("error", error_details(data), 0, 0, 0)
                 ELSE Rendered("metrics", <<>>, totals.input_tokens,
                               totals.output_tokens, totals.cost_usd),
         stats |-> totals]

\* process_result that counts the usage of successful runs only.
process_result_SkipFailures(data, stats) ==
    LET input_t == data.usage.input_tokens + data.usage.cache_read_input_tokens
        output_t == data.usage.output_tokens
        totals == [stats EXCEPT !.input_tokens = @ + input_t,
                                !.output_tokens = @ + output_t,
                                !.cache_read = @ + data.usage.cache_read_input_tokens,
                                !.cost_usd = @ + data.total_cost_usd]
    IN  [out |-> IF data.is_error
                 THEN Rendered("error", error_details(data), 0, 0, 0)
                 ELSE Rendered("metrics", <<>>, input_t, output_t, data.total_cost_usd),
         stats |-> IF data.is_error THEN stats ELSE totals]

\* Lines 183-220: the usage of the record is added to session_stats; the
\* line shows the error details or the numbers of this record.
process_result(data, stats) ==
    LET input_t == data.usage.input_tokens + data.usage.cache_read_input_tokens
        output_t == data.usage.output_tokens
        totals == [stats EXCEPT !.input_tokens = @ + input_t,
                                !.output_tokens = @ + output_t,
                                !.cache_read = @ + data.usage.cache_read_input_tokens,
                                !.cost_usd = @ + data.total_cost_usd]
    IN  [out |-> IF data.is_error
                 THEN Rendered("error", error_details(data), 0, 0, 0)
                 ELSE Rendered("metrics", <<>>, input_t, output_t, data.total_cost_usd),
         stats |-> totals]

\* Lines 247-256: the texts that are not empty and the tool calls of content.
RECURSIVE content_results(_)
content_results(content) ==
    IF content = <<>> THEN <<>>
    ELSE LET item == Head(content)
         IN  (IF item.type = "text" /\ item.text # {} THEN <<<<"text", item.text>>>>
              ELSE IF item.type = "tool_use" THEN <<<<"tool", {item.name}>>>>
              ELSE <<>>)
                 \o content_results(Tail(content))

\* Line 153: every tool call of content adds one to session_stats.tool_calls.
tool_uses(content) == Cardinality({i \in 1..Len(content) : content[i].type = "tool_use"})

\* process_line that shows a line json.loads rejects as an error of the stream.
process_line_ReportMalformed(line, stats) ==
    IF line.json = "malformed"
    THEN [out |-> Rendered("error", <<<<"msg", line.text>>>>, 0, 0, 0),
          stats |-> [stats EXCEPT !.tool_calls = @ + 1]]
    ELSE IF line.json = "value" THEN [out |-> Traceback, stats |-> stats]
    ELSE IF line.type = "system" /\ line.subtype = "init"
    THEN [out |-> process_init(line), stats |-> stats]
    ELSE IF line.type = "result" THEN process_result(line, stats)
    ELSE IF line.type # "assistant" THEN [out |-> NoLine, stats |-> stats]
    ELSE [out |-> IF content_results(line.content) = <<>> THEN NoLine
                  ELSE Rendered("content", content_results(line.content), 0, 0, 0),
          stats |-> [stats EXCEPT !.tool_calls = @ + tool_uses(line.content)]]

\* Lines 223-258: process_line for one line that is not empty, with the value
\* of session_stats it leaves; json.loads failing gives None, data.get of a
\* value that is no object raises.
process_line(line, stats) ==
    IF line.json = "malformed" THEN [out |-> NoLine, stats |-> stats]
    ELSE IF line.json = "value" THEN [out |-> Traceback, stats |-> stats]
    ELSE IF line.type = "system" /\ line.subtype = "init"
    THEN [out |-> process_init(line), stats |-> stats]
    ELSE IF line.type = "result" THEN process_result(line, stats)
    ELSE IF line.type # "assistant" THEN [out |-> NoLine, stats |-> stats]
    ELSE [out |-> IF content_results(line.content) = <<>> THEN NoLine
                  ELSE Rendered("content", content_results(line.content), 0, 0, 0),
          stats |-> [stats EXCEPT !.tool_calls = @ + tool_uses(line.content)]]

\* Lines 287-293: main reads one line; an empty line is skipped, the others
\* go to process_line; an exception of process_line ends the loop.
ProcessLine ==
    /\ program = "format-output"
    /\ step = "reading"
    /\ line_no < Len(stdin)
    /\ line_no' = line_no + 1
    /\ LET line == stdin[line_no + 1]
           r == process_line(line, session_stats)
       IN  IF line.json = "blank"
           THEN /\ rendered' = Append(rendered, NoLine)
                /\ UNCHANGED <<session_stats, step>>
           ELSE /\ rendered' = Append(rendered, r.out)
                /\ session_stats' = r.stats
                /\ step' = IF r.out = Traceback THEN "raised" ELSE step
    /\ UNCHANGED <<pipeline, delivery, command_vars, program, probe, health, stdin, env_file,
                   env_vars, loaded_config, notifier, network_sends>>

\* Lines 287-293 for line i and the lines after it: what main has printed
\* and added up when the input ends or process_line raises.
RECURSIVE main_loop(_, _, _, _)
main_loop(lines, i, stats, printed) ==
    IF i > Len(lines) THEN [printed |-> printed, stats |-> stats]
    ELSE IF lines[i].json = "blank" THEN main_loop(lines, i + 1, stats, printed)
    ELSE IF process_line(lines[i], stats).out = Traceback
    THEN [printed |-> Append(printed, Traceback), stats |-> stats]
    ELSE main_loop(lines, i + 1, process_line(lines[i], stats).stats,
                   IF process_line(lines[i], stats).out = NoLine THEN printed
                   ELSE Append(printed, process_line(lines[i], stats).out))

\* Lines 261-281: whether print_session_summary prints the totals.
prints_summary(stats) == ~(stats.tool_calls = 0 /\ stats.input_tokens = 0)

\* Lines 296-297: the input ended or process_line raised; the finally clause
\* prints the session summary.
PrintSummary ==
    /\ program = "format-output"
    /\ \/ step = "reading" /\ line_no = Len(stdin)
       \/ step = "raised"
    /\ step' = IF prints_summary(session_stats) THEN "summary" ELSE "silent"
    /\ UNCHANGED <<pipeline, delivery, command_vars, program, probe, health, stdin, line_no,
                   session_stats, rendered, env_file, env_vars, loaded_config,
                   notifier, network_sends>>

\* ---------------------------------------------------------------- config.py
\* A string of config.py is the sequence of its symbols: characters, and the
\* names of the settings written as one symbol each.
Whitespace == {" "}

Digits == {"0", "1", "2", "3", "4", "5", "6", "7", "8", "9"}

digit_value(c) ==
    CASE c = "0" -> 0 [] c = "1" -> 1 [] c = "2" -> 2 [] c = "3" -> 3 [] c = "4" -> 4
      [] c = "5" -> 5 [] c = "6" -> 6 [] c = "7" -> 7 [] c = "8" -> 8 [] c = "9" -> 9

\* str.strip() and its two halves.
RECURSIVE lstrip(_)
lstrip(s) == IF s # <<>> /\ Head(s) \in Whitespace THEN lstrip(Tail(s)) ELSE s

RECURSIVE rstrip(_)
rstrip(s) ==
    IF s # <<>> /\ s[Len(s)] \in Whitespace THEN rstrip(SubSeq(s, 1, Len(s) - 1)) ELSE s

strip(s) == rstrip(lstrip(s))

\* str.find(c) + 1: the place of the first c, 0 without one.
find(s, c) ==
    IF \E i \in 1..Len(s) : s[i] = c
    THEN CHOOSE i \in 1..Len(s) : s[i] = c /\ \A j \in 1..(i - 1) : s[j] # c
    ELSE 0

\* str.partition(c).
partition(s, c) ==
    IF find(s, c) = 0 THEN <<s, <<>>, <<>>>>
    ELSE <<SubSeq(s, 1, find(s, c) - 1), <<c>>, SubSeq(s, find(s, c) + 1, Len(s))>>

\* str.split(c).
RECURSIVE split(_, _)
split(s, c) ==
    IF find(s, c) = 0 THEN <<s>>
    ELSE <<SubSeq(s, 1, find(s, c) - 1)>> \o split(SubSeq(s, find(s, c) + 1, Len(s)), c)

\* str.lower(), symbol by symbol.
lower_char(c) ==
    CASE c = "T" -> "t" [] c = "R" -> "r" [] c = "U" -> "u" [] c = "E" -> "e"
      [] c = "Y" -> "y" [] c = "S" -> "s" [] c = "F" -> "f" [] c = "A" -> "a"
      [] c = "L" -> "l" [] c = "N" -> "n" [] c = "O" -> "o" [] OTHER -> c

str_lower(s) == [i \in 1..Len(s) |-> lower_char(s[i])]

\* The number a sequence of digits writes.
RECURSIVE digits_value(_)
digits_value(s) ==
    IF s = <<>> THEN 0
    ELSE 10 * digits_value(SubSeq(s, 1, Len(s) - 1)) + digit_value(s[Len(s)])

\* int(s): surrounding whitespace and one sign are accepted; ok is FALSE
\* where int raises ValueError.
int(s) ==
    LET t == strip(s)
        signed == t # <<>> /\ t[1] \in {"-", "+"}
        body == IF signed THEN Tail(t) ELSE t
        ok == body # <<>> /\ \A i \in 1..Len(body) : body[i] \in Digits
    IN  [ok |-> ok,
         value |-> IF ~ok THEN 0
                   ELSE IF signed /\ t[1] = "-" THEN 0 - digits_value(body)
                   ELSE digits_value(body)]

\* A dict[str, str] is the set of its items; d[key] = value and d.get.
setitem(d, key, value) == {item \in d : item[1] # key} \cup {<<key, value>>}

has_key(d, key) == \E item \in d : item[1] = key

get(d, key, default) ==
    IF has_key(d, key) THEN (CHOOSE item \in d : item[1] = key)[2] ELSE default

keys(d) == {item[1] : item \in d}

\* Lines 100-102: one pair of quotes around the value is removed.
unquote(value) ==
    IF value # <<>> /\ value[1] \in {"\"", "'"} /\ value[Len(value)] = value[1]
    THEN SubSeq(value, 2, Len(value) - 1)
    ELSE value

\* read_lines that keeps the first value of a key.
RECURSIVE read_lines_KeepFirst(_, _, _)
read_lines_KeepFirst(lines, i, d) ==
    IF i > Len(lines) THEN d
    ELSE LET line == strip(lines[i])
             key == strip(partition(line, "=")[1])
             value == unquote(strip(partition(line, "=")[3]))
         IN  IF line = <<>> \/ line[1] = "#" THEN read_lines_KeepFirst(lines, i + 1, d)
             ELSE IF find(line, "=") # 0 /\ ~has_key(d, key)
             THEN read_lines_KeepFirst(lines, i + 1, setitem(d, key, value))
             ELSE read_lines_KeepFirst(lines, i + 1, d)

\* Lines 90-103: the loop over the lines of the file from line i on.
RECURSIVE read_lines(_, _, _)
read_lines(lines, i, d) ==
    IF i > Len(lines) THEN d
    ELSE LET line == strip(lines[i])
             key == strip(partition(line, "=")[1])
             value == unquote(strip(partition(line, "=")[3]))
         IN  IF line = <<>> \/ line[1] = "#" THEN read_lines(lines, i + 1, d)
             ELSE IF find(line, "=") # 0
             THEN read_lines(lines, i + 1, setitem(d, key, value))
             ELSE read_lines(lines, i + 1, d)

\* Lines 75-105.
_load_env_file(file) == IF ~file.exists THEN {} ELSE read_lines(file.lines, 1, {})

DefaultDelays == <<600, 1200, 1800>>

DefaultDelaysStr ==
    <<"6", "0", "0", ",", "1", "2", "0", "0", ",", "1", "8", "0", "0">>

DefaultRetries == 2

\* parse_delays that leaves out the elements int rejects.
parse_delays_SkipInvalid(delays_str) ==
    LET parts == split(delays_str, ",")
        kept == SelectSeq(parts, LAMBDA d : strip(d) # <<>> /\ int(strip(d)).ok)
    IN  [i \in 1..Len(kept) |-> int(strip(kept[i])).value]

\* Lines 47-51: RECOVERY_DELAYS is split at the commas, the elements that
\* are blank are dropped and the others go to int; one ValueError gives the
\* default list.
parse_delays(delays_str) ==
    LET parts == split(delays_str, ",")
        kept == SelectSeq(parts, LAMBDA d : strip(d) # <<>>)
        parsed == [i \in 1..Len(kept) |-> int(strip(kept[i]))]
    IN  IF \E i \in 1..Len(kept) : ~parsed[i].ok
        THEN DefaultDelays
        ELSE [i \in 1..Len(kept) |-> parsed[i].value]

\* Lines 61-64.
parse_retries(s) == IF int(s).ok THEN int(s).value ELSE DefaultRetries

\* Lines 54-58 without lower().
parse_enabled_CaseSensitive(s) ==
    s \in {<<"t", "r", "u", "e">>, <<"1">>, <<"y", "e", "s">>}

\* Lines 54-58.
parse_enabled(s) ==
    str_lower(s) \in {<<"t", "r", "u", "e">>, <<"1">>, <<"y", "e", "s">>}

\* env_vars.get(key) of lines 67-68: None without the key.
get_optional(d, key) == IF has_key(d, key) THEN Some(get(d, key, <<>>)) ELSE None

\* Lines 44-72: Config.load once _load_env_file has returned.
Config_load(d) ==
    [telegram_bot_token |-> get_optional(d, <<"TELEGRAM_BOT_TOKEN">>),
     telegram_chat_id |-> get_optional(d, <<"TELEGRAM_CHAT_ID">>),
     recovery_enabled |-> parse_enabled(get(d, <<"RECOVERY_ENABLED">>, <<"t", "r", "u", "e">>)),
     recovery_delays |-> parse_delays(get(d, <<"RECOVERY_DELAYS">>, DefaultDelaysStr)),
     context_overflow_max_retries |->
         parse_retries(get(d, <<"CONTEXT_OVERFLOW_MAX_RETRIES">>, <<"2">>))]

\* Lines 26-29 of config.py.
telegram_configured(cfg) == truthy(cfg.telegram_bot_token) /\ truthy(cfg.telegram_chat_id)

\* ---------------------------------------------------------------- notify.py
\* a or b of two Optional[str].
or_else(a, b) == IF truthy(a) THEN a ELSE b

\* Lines 50-61 of notify.py.
Notifier_init(token, chat_id, cfg) ==
    IF ~token.some \/ ~chat_id.some
    THEN [token |-> or_else(token, cfg.telegram_bot_token),
          chat_id |-> or_else(chat_id, cfg.telegram_chat_id)]
    ELSE [token |-> token, chat_id |-> chat_id]

\* is_configured that is content with one of the two.
is_configured_Either(n) == truthy(n.token) \/ truthy(n.chat_id)

\* Lines 63-66 of notify.py.
is_configured(n) == truthy(n.token) /\ truthy(n.chat_id)

\* ------------------------------------------------------------ the .env files
Setting(key, value) == <<key, "=">> \o value

DelaysValues ==
    {<<"5">>, <<"5", ",", "1", "0">>, <<"1", "0", ",", "5">>,
     <<"5", " ", ",", " ", "7">>, <<"5", ",", "x">>, <<"x">>, <<>>,
     <<"5", ",", ",", "7">>, <<"5", ",">>, <<"1", ".", "5">>, <<"-", "5">>,
     <<"5", " ", "0">>, <<"\"", "5", ",", "7", "\"">>}

RetriesValues ==
    {<<"3">>, <<"0">>, <<"1", "0">>, <<"x">>, <<>>, <<"2", ".", "5">>, <<"-", "1">>,
     <<"'", " ", "3", " ", "'">>}

EnabledValues ==
    {<<"t", "r", "u", "e">>, <<"T", "R", "U", "E">>, <<"T", "r", "u", "e">>, <<"1">>,
     <<"y", "e", "s">>, <<"Y", "E", "S">>, <<"f", "a", "l", "s", "e">>,
     <<"F", "A", "L", "S", "E">>, <<"0">>, <<"n", "o">>, <<"o", "n">>, <<>>,
     <<"t", "r", "u">>, <<"y", "e", "s", "s">>, <<"'", "Y", "e", "s", "'">>}

TelegramValues == {<<>>, <<"x">>}

\* The lines of an .env file: empty ones, comments, lines without "=",
\* settings with and without blanks and quotes.
EnvLines ==
    {<<>>, <<" ">>, <<"#", "KEY1", "=", "a">>, <<" ", "#">>, <<"KEY1">>,
     <<"KEY1", "=", "a">>, <<"KEY1", "=", "b">>, <<"KEY2", "=", "a">>,
     <<" ", "KEY1", " ", "=", " ", "a", " ">>, <<"KEY1", "=", "\"", "a", " ", "b", "\"">>,
     <<"KEY2", "=", "'", "a", "'">>, <<"KEY1", "=", "\"", "a", "'">>,
     <<"KEY1", "=", "\"">>, <<"KEY1", "=", "a", "=", "b">>, <<"=", "a">>,
     <<"KEY2", "=">>}

EnvFiles ==
    {NoFile}
        \cup {[exists |-> TRUE, lines |-> l] :
                 l \in UNION {[1..n -> EnvLines] : n \in 0..MaxEnvLines}}
        \cup {[exists |-> TRUE, lines |-> <<Setting("RECOVERY_DELAYS", v)>>] :
                 v \in DelaysValues}
        \cup {[exists |-> TRUE, lines |-> <<Setting("CONTEXT_OVERFLOW_MAX_RETRIES", v)>>] :
                 v \in RetriesValues}
        \cup {[exists |-> TRUE, lines |-> <<Setting("RECOVERY_ENABLED", v)>>] :
                 v \in EnabledValues}
        \cup {[exists |-> TRUE, lines |-> <<Setting("TELEGRAM_BOT_TOKEN", v)>>] :
                 v \in TelegramValues}
        \cup {[exists |-> TRUE, lines |-> <<Setting("TELEGRAM_CHAT_ID", v)>>] :
                 v \in TelegramValues}
        \cup {[exists |-> TRUE,
               lines |-> <<Setting("TELEGRAM_BOT_TOKEN", v), Setting("TELEGRAM_CHAT_ID", w)>>] :
                 v \in TelegramValues, w \in TelegramValues}

\* Line 44 of config.py: Config.load reads the file.
LoadEnvFile ==
    /\ program = "config"
    /\ step = "start"
    /\ env_vars' = _load_env_file(env_file)
    /\ step' = "env"
    /\ UNCHANGED <<pipeline, delivery, command_vars, program, probe, health, stdin, line_no,
                   session_stats, rendered, env_file, loaded_config, notifier,
                   network_sends>>

\* Lines 46-72 and 112-117 of config.py: get_config keeps the Config.
ConfigLoad ==
    /\ program = "config"
    /\ step = "env"
    /\ loaded_config' = Config_load(env_vars)
    /\ step' = "loaded"
    /\ UNCHANGED <<pipeline, delivery, command_vars, program, probe, health, stdin, line_no,
                   session_stats, rendered, env_file, env_vars, notifier,
                   network_sends>>

\* The arguments of Notifier(): nothing, an empty string, a value.
NotifierArgs == {None, Some(<<>>), Some(<<"y">>)}

\* Lines 50-61 of notify.py: a Notifier is built, with or without arguments.
NotifierInit ==
    /\ program = "config"
    /\ step = "loaded"
    /\ \E token \in NotifierArgs, chat_id \in NotifierArgs :
           notifier' = Notifier_init(token, chat_id, loaded_config)
    /\ step' = "notifier"
    /\ UNCHANGED <<pipeline, delivery, command_vars, program, probe, health, stdin, line_no,
                   session_stats, rendered, env_file, env_vars, loaded_config,
                   network_sends>>

EventMethods ==
    {"session_start", "task_failed", "recovery_start", "recovery_success",
     "pipeline_stopped", "session_complete", "context_overflow"}

\* Lines 68-155 of notify.py: an event method builds its message and returns
\* _send(message): False without configuration, else what send_telegram
\* returns for the request it makes.
NotifierEvent ==
    /\ program = "config"
    /\ step = "notifier"
    /\ network_sends < MaxSends
    /\ \E name \in EventMethods, status \in DeliveryStatus :
           /\ (status = "unconfigured") <=> ~is_configured(notifier)
           /\ notified' = Event(name, 0, 0, 0)
           /\ delivery' = Delivery(status)
           /\ network_sends' = IF status = "unconfigured" THEN network_sends
                               ELSE network_sends + 1
    /\ UNCHANGED <<pc, tasks, no_recovery, config, header_recovery, idx, completed,
                   failed, failed_reasons, pipeline_stopped, ret, exit_code,
                   context_overflow_attempts, resume_session, recovery_note, result,
                   run_prompt, run_resume, rl_attempt, attempted, cleaned, outcomes,
                   nFresh, nWaits, nProbes, via, first_retry, ended, onlyOverflow,
                   trigger, cleared_session, batch, batch_tasks, stop_notices, session_events,
                   interrupted, program, step, probe, health, stdin, line_no,
                   session_stats, rendered, env_file, env_vars, loaded_config,
                   notifier, command_vars>>

\* ------------------------------------------------------------ the scripts
\* run_implement was not called.
ImplementIdle ==
    /\ pc = "start"
    /\ tasks = <<>>
    /\ no_recovery = FALSE
    /\ config = [recovery_enabled |-> TRUE, recovery_delays |-> <<>>,
                 context_overflow_max_retries |-> 0]
    /\ header_recovery = "unset"
    /\ idx = 1
    /\ completed = <<>>
    /\ failed = <<>>
    /\ failed_reasons = <<>>
    /\ pipeline_stopped = FALSE
    /\ ret = NoResult
    /\ exit_code = -1
    /\ context_overflow_attempts = 0
    /\ resume_session = NoSession
    /\ recovery_note = NoNote
    /\ result = NoResult
    /\ run_prompt = NoPrompt
    /\ run_resume = NoSession
    /\ rl_attempt = 0
    /\ notified = NoEvent
    /\ delivery = NoDelivery
    /\ stop_notices = 0
    /\ session_events = <<>>
    /\ interrupted = FALSE
    /\ attempted = {}
    /\ cleaned = <<>>
    /\ nFresh = 0
    /\ nWaits = 0
    /\ nProbes = 0
    /\ via = "first"
    /\ ended = "no"
    /\ first_retry = FALSE
    /\ onlyOverflow = TRUE
    /\ trigger = NoResult
    /\ cleared_session = NoSession
    /\ outcomes = <<>>
    /\ batch = "none"
    /\ batch_tasks = <<>>

\* One run of one of the scripts: health_check.py on a behaviour of its
\* probe, format-output.py on an input stream, or config.py and notify.py
\* on an .env file.
ScriptInit ==
    /\ ImplementIdle
    /\ program \in {"health_check", "format-output", "config"}
    /\ step = IF program = "format-output" THEN "reading" ELSE "start"
    /\ probe \in IF program = "health_check" THEN Probes ELSE {NoProbe}
    /\ health = NoHealth
    /\ stdin \in IF program = "format-output"
                 THEN UNION {[1..n -> StreamLines \cup {Blank, InitRecord}] : n \in 0..MaxLines}
                 ELSE {<<>>}
    /\ line_no = 0
    /\ session_stats = ZeroStats
    /\ rendered = <<>>
    /\ env_file \in IF program = "config" THEN EnvFiles ELSE {NoFile}
    /\ env_vars = {}
    /\ loaded_config = NoConfig
    /\ notifier = NoNotifier
    /\ network_sends = 0
    /\ CommandsIdle

ScriptNext ==
    \/ CheckHealth
    \/ ProcessLine
    \/ PrintSummary
    \/ LoadEnvFile
    \/ ConfigLoad
    \/ NotifierInit
    \/ NotifierEvent

ScriptSpec == ScriptInit /\ [][ScriptNext]_vars


\* ------------------------------------------------------------ the commands
\* The variables of the scripts, which the commands leave alone.
tool_vars ==
    <<probe, health, stdin, line_no, session_stats, rendered, env_file, env_vars,
      loaded_config, notifier, network_sends>>

\* ---------------------------------------------------------------- git.py
\* The paths of the tree with a status, in the order git lists them.
RECURSIVE listing(_, _, _)
listing(t, status, n) ==
    IF n = 0 THEN <<>>
    ELSE listing(t, status, n - 1) \o (IF t[n] = status THEN <<n>> ELSE <<>>)

\* Line 34, repo.is_dirty(untracked_files=True): a change in the index, in
\* the working tree or a file that is not tracked.
is_dirty(t) == \E p \in Paths : t[p] \in {"modified", "staged", "untracked"}

\* Lines 21-39: the paths of repo.index.diff(None), which compares the
\* working tree with the index, and repo.untracked_files.
get_files_to_clean(t) ==
    IF is_dirty(t)
    THEN [modified |-> listing(t, "modified", MaxPaths),
          untracked |-> listing(t, "untracked", MaxPaths)]
    ELSE [modified |-> <<>>, untracked |-> <<>>]

\* git checkout -- . : the tracked paths get the content of the index.
git_checkout(t) == [p \in Paths |-> IF t[p] = "modified" THEN "clean" ELSE t[p]]

\* git clean -fd : the paths that are not tracked are removed.
git_clean(t) == [p \in Paths |-> IF t[p] = "untracked" THEN "absent" ELSE t[p]]

\* Lines 42-70: the list is made before the commands run; a command that
\* raises GitCommandError leaves the tree as it is and is logged only.
cleanup_working_dir(repo, t, checkout_ok, clean_ok) ==
    IF ~repo THEN [cleaned |-> <<>>, tree |-> t]
    ELSE LET files == get_files_to_clean(t)
             after_checkout == IF checkout_ok THEN git_checkout(t) ELSE t
             after_clean == IF clean_ok THEN git_clean(after_checkout)
                            ELSE after_checkout
         IN  [cleaned |-> files.modified \o files.untracked, tree |-> after_clean]

\* One call of cleanup_working_dir.
CleanupWorkingDir ==
    /\ program = "cleanup_working_dir"
    /\ step = "start"
    /\ \E checkout_ok, clean_ok \in BOOLEAN :
           LET r == cleanup_working_dir(is_repo, tree, checkout_ok, clean_ok)
           IN  /\ cleaned_files' = r.cleaned
               /\ tree' = r.tree
    /\ step' = "returned"
    /\ UNCHANGED <<pipeline, delivery, tool_vars, program, returned, warnings, raising,
                   is_repo, state_file, state_backup, state_suspended, results,
                   plan_tasks, plan_idx, plan_started, plan_completed, plan_failed>>

\* ------------------------------------------------------------- review.py
\* How run_single_review ends: the exit code of the agent, the timeout of
\* 30 minutes or another exception.
ReviewOutcomes == {"exit 0", "exit 1", "timeout", "exception"}

\* Lines 124-170: success is returncode == 0; TimeoutExpired and Exception
\* give a result that failed.
run_single_review(skill_name, outcome) ==
    [name |-> skill_name, success |-> (outcome = "exit 0")]

\* Lines 51-65: the state file, if there is one, is renamed to the backup;
\* a rename that raises is reported and leaves state_suspended False.
ReviewSuspend ==
    /\ program = "ralph review"
    /\ step = "start"
    /\ IF state_file # "absent"
       THEN \E renamed \in BOOLEAN :
                IF renamed
                THEN /\ state_backup' = state_file
                     /\ state_file' = "absent"
                     /\ state_suspended' = TRUE
                     /\ UNCHANGED warnings
                ELSE /\ warnings' = warnings \cup {"Could not suspend workflow state"}
                     /\ UNCHANGED <<state_file, state_backup, state_suspended>>
       ELSE UNCHANGED <<state_file, state_backup, state_suspended, warnings>>
    /\ results' = <<>>
    /\ step' = "loop"
    /\ UNCHANGED <<pipeline, delivery, tool_vars, program, returned, raising, is_repo,
                   tree, cleaned_files, plan_tasks, plan_idx, plan_started,
                   plan_completed, plan_failed>>

\* RunSingleReview that leaves the loop after a review that failed.
RunSingleReview_StopOnFailure ==
    /\ program = "ralph review"
    /\ step = "loop"
    /\ Len(results) < Len(REVIEWS)
    /\ \E outcome \in ReviewOutcomes :
           /\ results' = Append(results, run_single_review(REVIEWS[Len(results) + 1], outcome))
           /\ step' = IF Len(results) + 1 = Len(REVIEWS) \/ outcome # "exit 0"
                      THEN "finally" ELSE "loop"
    /\ UNCHANGED <<pipeline, delivery, tool_vars, program, returned, warnings, raising,
                   is_repo, tree, cleaned_files, state_file, state_backup,
                   state_suspended, plan_tasks, plan_idx, plan_started, plan_completed,
                   plan_failed>>

\* Lines 68-76: one turn of the loop over REVIEWS; the result of the review
\* is appended, and behind the last review the loop is left.
RunSingleReview ==
    /\ program = "ralph review"
    /\ step = "loop"
    /\ Len(results) < Len(REVIEWS)
    /\ \E outcome \in ReviewOutcomes :
           results' = Append(results, run_single_review(REVIEWS[Len(results) + 1], outcome))
    /\ step' = IF Len(results) + 1 = Len(REVIEWS) THEN "finally" ELSE "loop"
    /\ UNCHANGED <<pipeline, delivery, tool_vars, program, returned, warnings, raising,
                   is_repo, tree, cleaned_files, state_file, state_backup,
                   state_suspended, plan_tasks, plan_idx, plan_started, plan_completed,
                   plan_failed>>

\* ReviewInterrupted leaving run_review without the finally clause.
ReviewInterrupted_SkipRestore ==
    /\ program = "ralph review"
    /\ step = "loop"
    /\ Len(results) < Len(REVIEWS)
    /\ raising' = TRUE
    /\ step' = "interrupted"
    /\ UNCHANGED <<pipeline, delivery, tool_vars, program, returned, warnings, is_repo,
                   tree, cleaned_files, state_file, state_backup, state_suspended,
                   results, plan_tasks, plan_idx, plan_started, plan_completed,
                   plan_failed>>

\* An operator interrupt while a review runs: KeyboardInterrupt is no
\* Exception, so lines 150-170 do not catch it and it leaves the loop of
\* lines 67-76 for the finally clause.
ReviewInterrupted ==
    /\ program = "ralph review"
    /\ step = "loop"
    /\ Len(results) < Len(REVIEWS)
    /\ raising' = TRUE
    /\ step' = "finally"
    /\ UNCHANGED <<pipeline, delivery, tool_vars, program, returned, warnings, is_repo,
                   tree, cleaned_files, state_file, state_backup, state_suspended,
                   results, plan_tasks, plan_idx, plan_started, plan_completed,
                   plan_failed>>

\* Lines 78-85: the backup of a suspended state file is renamed back; a
\* rename that raises is reported. A propagating interrupt then leaves
\* run_review.
ReviewRestore ==
    /\ program = "ralph review"
    /\ step = "finally"
    /\ IF state_suspended /\ state_backup # "absent"
       THEN \E renamed \in BOOLEAN :
                IF renamed
                THEN /\ state_file' = state_backup
                     /\ state_backup' = "absent"
                     /\ UNCHANGED warnings
                ELSE /\ warnings' = warnings \cup {"Could not restore workflow state"}
                     /\ UNCHANGED <<state_file, state_backup>>
       ELSE UNCHANGED <<state_file, state_backup, warnings>>
    /\ step' = IF raising THEN "interrupted" ELSE "summary"
    /\ UNCHANGED <<pipeline, delivery, tool_vars, program, returned, raising, is_repo,
                   tree, cleaned_files, state_suspended, results, plan_tasks, plan_idx,
                   plan_started, plan_completed, plan_failed>>

\* Lines 87-92: the summary and the exit code.
ReviewReturn ==
    /\ program = "ralph review"
    /\ step = "summary"
    /\ LET failures == Cardinality({i \in 1..Len(results) : ~results[i].success})
       IN  returned' = IF failures = 0 THEN 0 ELSE 1
    /\ step' = "returned"
    /\ UNCHANGED <<pipeline, delivery, tool_vars, program, warnings, raising, is_repo,
                   tree, cleaned_files, state_file, state_backup, state_suspended,
                   results, plan_tasks, plan_idx, plan_started, plan_completed,
                   plan_failed>>

\* --------------------------------------------------------------- plan.py
\* Lines 32-36: no task numbers given, run_plan returns 1.
PlanNoTasks ==
    /\ program = "ralph plan"
    /\ step = "start"
    /\ plan_tasks = <<>>
    /\ returned' = 1
    /\ step' = "returned"
    /\ UNCHANGED <<pipeline, delivery, tool_vars, program, warnings, raising, is_repo,
                   tree, cleaned_files, state_file, state_backup, state_suspended,
                   results, plan_tasks, plan_idx, plan_started, plan_completed,
                   plan_failed>>

\* Lines 38-60: the session log is set up and the lists start empty.
PlanStart ==
    /\ program = "ralph plan"
    /\ step = "start"
    /\ plan_tasks # <<>>
    /\ plan_completed' = <<>>
    /\ plan_failed' = <<>>
    /\ step' = "loop"
    /\ UNCHANGED <<pipeline, delivery, tool_vars, program, returned, warnings, raising,
                   is_repo, tree, cleaned_files, state_file, state_backup,
                   state_suspended, results, plan_tasks, plan_idx, plan_started>>

\* Lines 62-71: the iteration of a task begins with cleanup_working_dir.
PlanCleanup ==
    /\ program = "ralph plan"
    /\ step = "loop"
    /\ plan_idx <= Len(plan_tasks)
    /\ plan_started' = Append(plan_started, plan_tasks[plan_idx])
    /\ \E checkout_ok, clean_ok \in BOOLEAN :
           LET r == cleanup_working_dir(is_repo, tree, checkout_ok, clean_ok)
           IN  /\ cleaned_files' = r.cleaned
               /\ tree' = r.tree
    /\ step' = "agent"
    /\ UNCHANGED <<pipeline, delivery, tool_vars, program, returned, warnings, raising,
                   is_repo, state_file, state_backup, state_suspended, results,
                   plan_tasks, plan_idx, plan_completed, plan_failed>>

\* How subprocess.run ends in run_plan.
PlanOutcomes == {"exit 0", "exit 1", "exception", "interrupt"}

\* What the agent may leave in the working directory.
AgentTrees == IF is_repo THEN Trees ELSE {tree}

\* PlanAgent that records an interrupted task as failed and goes on.
PlanAgent_InterruptAsFailure ==
    /\ program = "ralph plan"
    /\ step = "agent"
    /\ tree' \in AgentTrees
    /\ \E outcome \in PlanOutcomes :
           /\ plan_completed' = IF outcome = "exit 0"
                                THEN Append(plan_completed, plan_tasks[plan_idx])
                                ELSE plan_completed
           /\ plan_failed' = IF outcome # "exit 0"
                             THEN Append(plan_failed, plan_tasks[plan_idx])
                             ELSE plan_failed
           /\ warnings' = IF outcome = "interrupt"
                          THEN warnings \cup {"Interrupted by user"} ELSE warnings
    /\ plan_idx' = plan_idx + 1
    /\ step' = IF plan_idx = Len(plan_tasks) THEN "summary" ELSE "loop"
    /\ UNCHANGED <<pipeline, delivery, tool_vars, program, returned, raising, is_repo,
                   cleaned_files, state_file, state_backup, state_suspended, results,
                   plan_tasks, plan_started>>

\* Lines 83-105: the planning agent runs. Exit code 0 completes the task,
\* another exit code or an exception fails it, and the loop goes on; an
\* operator interrupt is reported and breaks the loop.
PlanAgent ==
    /\ program = "ralph plan"
    /\ step = "agent"
    /\ tree' \in AgentTrees
    /\ \E outcome \in PlanOutcomes :
           /\ plan_completed' = IF outcome = "exit 0"
                                THEN Append(plan_completed, plan_tasks[plan_idx])
                                ELSE plan_completed
           /\ plan_failed' = IF outcome \in {"exit 1", "exception"}
                             THEN Append(plan_failed, plan_tasks[plan_idx])
                             ELSE plan_failed
           /\ IF outcome = "interrupt"
              THEN /\ warnings' = warnings \cup {"Interrupted by user"}
                   /\ step' = "summary"
                   /\ UNCHANGED plan_idx
              ELSE /\ plan_idx' = plan_idx + 1
                   /\ step' = IF plan_idx = Len(plan_tasks) THEN "summary" ELSE "loop"
                   /\ UNCHANGED warnings
    /\ UNCHANGED <<pipeline, delivery, tool_vars, program, returned, raising, is_repo,
                   cleaned_files, state_file, state_backup, state_suspended, results,
                   plan_tasks, plan_started>>

\* Lines 107-120: the summary and the exit code.
PlanReturn ==
    /\ program = "ralph plan"
    /\ step = "summary"
    /\ returned' = IF plan_failed = <<>> THEN 0 ELSE 1
    /\ step' = "returned"
    /\ UNCHANGED <<pipeline, delivery, tool_vars, program, warnings, raising, is_repo,
                   tree, cleaned_files, state_file, state_backup, state_suspended,
                   results, plan_tasks, plan_idx, plan_started, plan_completed,
                   plan_failed>>

\* --------------------------------------------------------- specification
\* One call of cleanup_working_dir on a working directory, one run of
\* ralph review on a workflow state, or one run of ralph plan on a queue.
CommandInit ==
    /\ ImplementIdle
    /\ program \in {"cleanup_working_dir", "ralph review", "ralph plan"}
    /\ step = "start"
    /\ probe = NoProbe
    /\ health = NoHealth
    /\ stdin = <<>>
    /\ line_no = 0
    /\ session_stats = ZeroStats
    /\ rendered = <<>>
    /\ env_file = NoFile
    /\ env_vars = {}
    /\ loaded_config = NoConfig
    /\ notifier = NoNotifier
    /\ network_sends = 0
    /\ returned = -1
    /\ warnings = {}
    /\ raising = FALSE
    /\ is_repo \in IF program = "ralph review" THEN {FALSE} ELSE BOOLEAN
    /\ tree \in IF is_repo THEN Trees ELSE {NoTree}
    /\ cleaned_files = <<>>
    /\ state_file \in IF program = "ralph review" THEN {"absent", "active"} ELSE {"absent"}
    /\ state_backup \in IF program = "ralph review" THEN {"absent", "stale"} ELSE {"absent"}
    /\ state_suspended = FALSE
    /\ results = <<>>
    /\ plan_tasks \in IF program = "ralph plan" THEN TaskLists ELSE {<<>>}
    /\ plan_idx = 1
    /\ plan_started = <<>>
    /\ plan_completed = <<>>
    /\ plan_failed = <<>>

CommandNext ==
    \/ CleanupWorkingDir
    \/ ReviewSuspend
    \/ RunSingleReview
    \/ ReviewInterrupted
    \/ ReviewRestore
    \/ ReviewReturn
    \/ PlanNoTasks
    \/ PlanStart
    \/ PlanCleanup
    \/ PlanAgent
    \/ PlanReturn

CommandSpec == CommandInit /\ [][CommandNext]_vars
\* ------------------------------------------------------------------- claims
\* C1: once the terminal outcome of a task has a fatal kind (AuthError), no
\* later task of the queue is attempted: it gets neither a working-tree
\* cleanup nor an agent invocation, and run_implement returns 1.
C1_FatalStopsQueue ==
    \A i \in 1..Len(outcomes) :
        is_fatal(outcomes[i]) =>
            /\ \A j \in (i + 1)..Len(tasks) :
                   tasks[j] \notin attempted /\ tasks[j] \notin Range(cleaned)
            /\ pc = "done" => exit_code = 1

C1_Witness ==
    /\ pc = "done"
    /\ tasks = <<1, 2, 3>>
    /\ outcomes = <<"AuthError">>
    /\ attempted = {1}
    /\ cleaned = <<1>>
    /\ exit_code = 1

\* C2: for a non-empty queue run_implement returns 0 exactly when every
\* attempted task ended completed or on hold (the failed list is empty), and
\* 1 when a task failed or the pipeline was stopped by a fatal outcome.
C2_ExitCode ==
    (pc = "done" /\ tasks # <<>>) =>
        /\ exit_code \in {0, 1}
        /\ exit_code = 0 <=> (\A i \in 1..Len(outcomes) : outcomes[i] \in {"Success", "OnHold"})
        /\ exit_code = 0 <=> failed = <<>>
        /\ (pipeline_stopped \/ failed # <<>>) => exit_code = 1

C2_Witness ==
    /\ pc = "done"
    /\ Len(tasks) = 3
    /\ exit_code = 0
    /\ "OnHold" \in Range(outcomes)
    /\ "Success" \in Range(outcomes)

\* C3: the recovery loop of a task is bounded: whatever the attempts and
\* the health probe answer, every invocation of the agent is followed, after
\* finitely many further invocations, by the return of the task's terminal
\* outcome.
C3_TaskTerminates == (pc = "running") ~> (pc \in {"classify", "interrupted"})

\* C4: a task whose attempts all end in ContextOverflow is retried with a
\* fresh session exactly context_overflow_max_retries times; the next
\* ContextOverflow outcome is returned as the terminal failure, and no
\* backoff is entered on the way.
C4_OverflowRetries ==
    onlyOverflow =>
        /\ InTask => (nFresh <= config.context_overflow_max_retries /\ ~InRecovery)
        /\ pc = "classify" =>
               /\ nFresh = config.context_overflow_max_retries
               /\ ret = result
               /\ ret.error_type = "ContextOverflow"
               /\ ended = "failed"
               /\ nWaits = 0 /\ nProbes = 0

C4_Witness ==
    /\ pc = "classify"
    /\ onlyOverflow
    /\ config.context_overflow_max_retries = 2
    /\ config.recovery_enabled
    /\ nFresh = 2
    /\ ret.error_type = "ContextOverflow"

\* C5: an invocation that directly follows a ContextOverflow retry is
\* started with no resume session id, also when a backoff recovery had set
\* one before.
C5_FreshHasNoResume ==
    (pc = "running" /\ via = "fresh") => run_resume = NoSession

C5_Witness ==
    /\ pc = "running"
    /\ via = "fresh"
    /\ cleared_session # NoSession
    /\ run_resume = NoSession

\* C6: the invocation that follows a backoff recovery ended by a healthy
\* probe is given the session id of the attempt whose failure started that
\* recovery, and a prompt with the resume note of that failure.
C6_ResumeTriggerSession ==
    (pc = "running" /\ via = "resume") =>
        /\ trigger # NoResult
        /\ run_resume = trigger.session_id
        /\ run_prompt.note = ResumeNote(trigger.error_type)

C6_Witness ==
    /\ pc = "running"
    /\ via = "resume"
    /\ ~first_retry
    /\ trigger.session_id # NoSession
    /\ run_resume = trigger.session_id

\* C7: when every configured delay is used and no probe answered healthy,
\* the task ends without another invocation and its terminal outcome is
\* the outcome of the attempt that started the recovery.
C7_ExhaustedReturnsTrigger ==
    ended = "exhausted" =>
        /\ pc = "classify"
        /\ ret = trigger
        /\ ret \in TaskResult
        /\ nWaits = Len(config.recovery_delays)
        /\ nProbes = Len(config.recovery_delays)

C7_Witness ==
    /\ pc = "classify"
    /\ ended = "exhausted"
    /\ Len(config.recovery_delays) = 2
    /\ nProbes = 2
    /\ ret = trigger

C9_DelaysInOrder ==
    /\ InTask => (nWaits <= Len(config.recovery_delays) /\ nProbes <= nWaits)
    /\ pc = "rl_top" => (nWaits = rl_attempt - 1 /\ nProbes = nWaits)
    /\ pc = "rl_wait" =>
           /\ nWaits < Len(config.recovery_delays)
           /\ nProbes = nWaits
           /\ notified = Event("recovery_start", nWaits + 1,
                               Len(config.recovery_delays),
                               config.recovery_delays[nWaits + 1])
    /\ pc = "rl_probe" => nWaits = nProbes + 1
    /\ (pc = "build" /\ via = "resume") => (nWaits = nProbes /\ nWaits >= 1)

C9_Witness ==
    /\ pc = "rl_wait"
    /\ config.recovery_delays = <<2, 1>>
    /\ nWaits = 1
    /\ notified = Event("recovery_start", 2, 2, 1)

\* C10: the first Success or OnHold outcome ends the task: it is returned
\* unchanged and no invocation, wait or probe follows it.
C10_DoneIsTerminal ==
    /\ (pc \in {"build", "running"} \/ InRecovery) =>
           result.error_type \notin {"Success", "OnHold"}
    /\ (pc = "classify" /\ result.error_type \in {"Success", "OnHold"}) =>
           (ret = result /\ ended = "done")

C10_Witness ==
    /\ pc = "classify"
    /\ result.error_type = "OnHold"
    /\ via = "resume"
    /\ context_overflow_attempts = 1
    /\ ret = result

\* C11: an outcome of kind AuthError or Unknown ends the task at once: it
\* is returned unchanged, and no wait, probe or invocation of the task
\* follows it.
C11_UnrecoverableIsTerminal ==
    /\ (pc \in {"build", "running"} \/ InRecovery) =>
           result.error_type \notin {"AuthError", "Unknown"}
    /\ (pc = "classify" /\ result.error_type \in {"AuthError", "Unknown"}) =>
           /\ ret = result
           /\ ended = "failed"
           /\ trigger = NoResult

C11_Witness ==
    /\ pc = "classify"
    /\ result.error_type = "Unknown"
    /\ via = "first"
    /\ config.recovery_enabled
    /\ Len(config.recovery_delays) = 2
    /\ config.context_overflow_max_retries = 2
    /\ ret = result

\* C12: with recovery disabled, by the no_recovery flag or by the
\* configuration, an outcome of kind RateLimited, Overloaded, Timeout or
\* ProcessError is returned at once as the terminal outcome of the task:
\* no recovery notification, wait, probe or further invocation happens.
C12_DisabledNoRecovery ==
    (pc # "start" /\ (no_recovery \/ ~config.recovery_enabled)) =>
        /\ ~InRecovery
        /\ via # "resume"
        /\ notified.name \notin {"recovery_start", "recovery_success"}
        /\ pc \in {"build", "running"} => ~is_recoverable(result.error_type)
        /\ (pc = "classify" /\ is_recoverable(result.error_type)) =>
               /\ ret = result
               /\ ended = "failed"
               /\ nWaits = 0
               /\ nProbes = 0

C12_Witness ==
    /\ pc = "classify"
    /\ no_recovery
    /\ Len(config.recovery_delays) = 2
    /\ result.error_type = "RateLimited"
    /\ ret = result
    /\ nFresh = 1

\* C13: a task whose terminal outcome is a failure of a non-fatal kind is
\* recorded in the failed list and does not stop the pipeline: the loop
\* goes on to the next task, and without a fatal outcome it is left only
\* when every task of the queue was attempted.
C13_FailureContinues ==
    /\ \A i \in 1..Len(outcomes) :
           (i < idx /\ outcomes[i] \notin {"Success", "OnHold"}) =>
               tasks[i] \in Range(failed)
    /\ (/\ pc = "loop"
        /\ idx > 1
        /\ outcomes[idx - 1] \notin {"Success", "OnHold"}
        /\ ~is_fatal(outcomes[idx - 1])) => ~pipeline_stopped
    /\ (\A i \in 1..Len(outcomes) : ~is_fatal(outcomes[i])) =>
           /\ ~pipeline_stopped
           /\ (pc \in {"summary", "batch", "done"} /\ tasks # <<>>) =>
                  (attempted = Range(tasks) /\ Len(outcomes) = Len(tasks))

C13_Witness ==
    /\ pc = "done"
    /\ tasks = <<1, 2, 3>>
    /\ config.recovery_enabled
    /\ config.recovery_delays = <<1>>
    /\ config.context_overflow_max_retries = 1
    /\ outcomes = <<"ContextOverflow", "Timeout", "Success">>
    /\ failed = <<1, 2>>
    /\ completed = <<3>>
    /\ attempted = {1, 2, 3}

\* C14: every classified task is in exactly one class, given by the kind
\* of its terminal outcome: completed iff Success, failed iff neither
\* Success nor OnHold, and in neither list iff OnHold. The two lists are
\* disjoint, hold only attempted tasks and hold no task twice.
C14_Classification ==
    /\ \A i \in 1..(idx - 1) :
           /\ outcomes[i] \in ErrorKind
           /\ tasks[i] \in Range(completed) <=> outcomes[i] = "Success"
           /\ tasks[i] \in Range(failed) <=> outcomes[i] \notin {"Success", "OnHold"}
    /\ Range(completed) \cap Range(failed) = {}
    /\ Range(completed) \cup Range(failed) \subseteq attempted
    /\ Range(completed) \cup Range(failed) \subseteq {tasks[i] : i \in 1..(idx - 1)}
    /\ Cardinality(Range(completed)) = Len(completed)
    /\ Cardinality(Range(failed)) = Len(failed)
    /\ Len(failed_reasons) = Len(failed)
    /\ \A j \in 1..Len(failed) :
           \E i \in 1..(idx - 1) : tasks[i] = failed[j] /\ outcomes[i] = failed_reasons[j]

C14_Witness ==
    /\ pc = "done"
    /\ outcomes = <<"Success", "OnHold", "Unknown">>
    /\ completed = <<1>>
    /\ failed = <<3>>
    /\ failed_reasons = <<"Unknown">>
    /\ attempted = {1, 2, 3}

\* C15: an agent invocation is in flight only while run_claude runs, and
\* it is the invocation of the current task; nothing is in flight during a
\* backoff wait or probe; the tasks are attempted in queue order, each one
\* only after every task before it has returned its terminal outcome.
C15_OneInFlight ==
    /\ run_prompt # NoPrompt <=> pc = "running"
    /\ pc = "running" => run_prompt.task = task_num
    /\ InRecovery => (run_prompt = NoPrompt /\ run_resume = NoSession)
    /\ InTask => Len(outcomes) = idx - 1
    /\ \E k \in 0..Len(tasks) : attempted = {tasks[i] : i \in 1..k}
    /\ {tasks[i] : i \in 1..Len(outcomes)} \subseteq attempted
    /\ attempted \subseteq
           {tasks[i] : i \in {j \in 1..Len(tasks) : j <= Len(outcomes) + 1}}

C15_Witness ==
    /\ pc = "rl_wait"
    /\ Len(tasks) = 3
    /\ idx = 2
    /\ Len(outcomes) = 1
    /\ attempted = {1, 2}
    /\ run_prompt = NoPrompt

\* C16: the working tree is cleaned once for each task that is started, in
\* queue order, after the terminal outcome of the task before it and
\* before the first invocation of the task; retries of a task clean
\* nothing, and a task skipped after a fatal stop is never cleaned.
C16_CleanupOncePerTask ==
    /\ Len(cleaned) <= Len(tasks)
    /\ cleaned = SubSeq(tasks, 1, Len(cleaned))
    /\ Len(cleaned) = IF InTask \/ pc \in {"classify", "interrupted"} THEN idx ELSE idx - 1
    /\ attempted \subseteq Range(cleaned)
    /\ Len(cleaned) <= Len(outcomes) + 1
    /\ Range(cleaned) # attempted => (pc = "build" /\ via = "first")
    /\ pipeline_stopped => Len(cleaned) = idx - 1

C16_Witness ==
    /\ pc = "running"
    /\ Len(tasks) = 3
    /\ idx = 2
    /\ via = "resume"
    /\ context_overflow_attempts = 1
    /\ cleaned = <<1, 2>>

\* C17: run_batch_check is called after the task loop exactly when a task
\* completed, with exactly the completed tasks; whether it ends normally or
\* with an error of its own, the exit code is 0 iff the failed list is
\* empty.
C17_BatchCheck ==
    /\ (pc = "done" /\ tasks # <<>>) => (batch # "none" <=> completed # <<>>)
    /\ pc = "batch" <=> batch = "running"
    /\ batch = "none" => batch_tasks = <<>>
    /\ batch # "none" =>
           /\ pc \in {"batch", "done"}
           /\ completed # <<>>
           /\ batch_tasks = completed
    /\ batch \in {"ok", "error"} =>
           /\ pc = "done"
           /\ exit_code = 0 <=> failed = <<>>
           /\ exit_code = 1 <=> failed # <<>>

C17_Witness ==
    /\ pc = "done"
    /\ batch = "error"
    /\ outcomes = <<"Success", "OnHold", "Success">>
    /\ batch_tasks = <<1, 3>>
    /\ exit_code = 0

\* C18: the outcome of a notification has no influence on the pipeline:
\* whenever a step sends a notification, the pipeline state it leads to is
\* also the state the step leads to when the notification is sent, fails
\* or is unconfigured, so runs that differ only in the fate of their
\* notifications pass through the same pipeline states.
C18_NotifierIndependent ==
    [][delivery' # NoDelivery =>
           \A status \in DeliveryStatus : \E after \in {pipeline'} :
               ENABLED (Next /\ pipeline' = after /\ delivery' = Delivery(status))]_vars

C18_Witness ==
    /\ pc = "loop"
    /\ tasks = <<1>>
    /\ idx = 2
    /\ notified = Event("task_failed", 1, 0, 0)
    /\ delivery = [status |-> "failed", returned |-> FALSE]
    /\ failed = <<1>>
    /\ ~pipeline_stopped

\* C19: the classification of a fatal outcome sends pipeline_stopped and
\* not task_failed, the classification of any other failure sends
\* task_failed and not pipeline_stopped; pipeline_stopped is sent at most
\* once in a session, exactly when the pipeline is stopped, and no task
\* behind the fatal one is attempted afterwards.
C19_StopNotification ==
    /\ stop_notices <= 1
    /\ stop_notices = 1 <=> pipeline_stopped
    /\ (pc = "loop" /\ idx > 1) =>
           /\ is_fatal(outcomes[idx - 1]) => notified.name = "pipeline_stopped"
           /\ (outcomes[idx - 1] \notin {"Success", "OnHold"} /\ ~is_fatal(outcomes[idx - 1]))
                  => notified.name = "task_failed"
           /\ outcomes[idx - 1] \in {"Success", "OnHold"} => notified = NoEvent
    /\ notified.name = "pipeline_stopped" =>
           (pc = "loop" /\ pipeline_stopped /\ is_fatal(outcomes[idx - 1]))
    /\ notified.name = "task_failed" =>
           /\ pc = "loop"
           /\ ~pipeline_stopped
           /\ ~is_fatal(outcomes[idx - 1])
           /\ outcomes[idx - 1] \notin {"Success", "OnHold"}
    /\ stop_notices = 1 =>
           /\ pc \in {"loop", "summary", "batch", "done"}
           /\ \A j \in idx..Len(tasks) : tasks[j] \notin attempted

C19_Witness ==
    /\ pc = "loop"
    /\ tasks = <<1, 2, 3>>
    /\ outcomes = <<"Unknown", "AuthError">>
    /\ notified.name = "pipeline_stopped"
    /\ stop_notices = 1
    /\ attempted = {1, 2}

\* C20: an operator interrupt during an invocation or a backoff wait ends
\* the subprocess, puts the current task into the failed list and stops
\* the pipeline: the session never ends with the interrupted task missing
\* from its results, and the loop never goes on behind it.
C20_InterruptStops ==
    interrupted =>
        /\ run_prompt = NoPrompt
        /\ pc = "interrupted" => task_num \in Range(failed)
        /\ pc = "loop" => (tasks[idx - 1] \in Range(failed) /\ pipeline_stopped)

\* C21: the attempt state belongs to one task: the first attempt of every
\* task, whatever the tasks before it went through, starts with
\* context_overflow_attempts = 0, no resume session and no recovery note,
\* and a task whose attempts all overflow still gets the full number of
\* fresh retries.
C21_AttemptStatePerTask ==
    /\ (pc = "build" /\ via = "first") =>
           /\ context_overflow_attempts = 0
           /\ resume_session = NoSession
           /\ recovery_note = NoNote
    /\ (pc = "running" /\ via = "first") =>
           /\ context_overflow_attempts = 0
           /\ run_resume = NoSession
           /\ run_prompt = build_prompt(task_num, NoNote)
    /\ (pc = "classify" /\ onlyOverflow) =>
           nFresh = config.context_overflow_max_retries

C21_Witness ==
    /\ pc = "running"
    /\ via = "first"
    /\ idx = 3
    /\ outcomes = <<"ContextOverflow", "Timeout">>
    /\ context_overflow_attempts = 0
    /\ run_resume = NoSession

\* ------------------------------------------------- claims on health_check.py
HealthDone == program = "health_check" /\ step = "exit"

\* The place of the last result record of the output, 0 without one.
LastResultAt(lines) ==
    IF \E i \in 1..Len(lines) : lines[i].json = "object" /\ lines[i].type = "result"
    THEN CHOOSE i \in 1..Len(lines) :
             /\ lines[i].json = "object" /\ lines[i].type = "result"
             /\ \A j \in (i + 1)..Len(lines) :
                    ~(lines[j].json = "object" /\ lines[j].type = "result")
    ELSE 0

\* The probe printed a failure result record and nothing but lines that are
\* no JSON after it.
FailureRecordCase ==
    /\ HealthDone
    /\ probe.behaviour = "output"
    /\ LastResultAt(probe.lines) > 0
    /\ probe.lines[LastResultAt(probe.lines)].is_error
    /\ \A j \in (LastResultAt(probe.lines) + 1)..Len(probe.lines) :
           probe.lines[j].json \in {"malformed", "blank"}

FailureRecord == probe.lines[LastResultAt(probe.lines)]

\* The probe printed no line that is JSON.
RawOutputCase ==
    /\ HealthDone
    /\ probe.behaviour = "output"
    /\ \A i \in 1..Len(probe.lines) : probe.lines[i].json \in {"malformed", "blank"}

\* The markers of a failure: the number in the error code or in the text,
\* the word (in any letter case) in the text.
AuthMarker(code, text) == "401" \in code \cup text

RateMarker(code, text) == "429" \in code \cup text \/ text \cap {"rate", "Rate"} # {}

OverloadMarker(code, text) == "529" \in code \cup text \/ "overloaded" \in text

Precedence(code, text, generic) ==
    IF AuthMarker(code, text) THEN "AUTH_ERROR"
    ELSE IF RateMarker(code, text) THEN "RATE_LIMITED"
    ELSE IF OverloadMarker(code, text) THEN "OVERLOADED"
    ELSE generic

C23_UnauthorizedIsAuth ==
    /\ (/\ FailureRecordCase
        /\ (FailureRecord.error_code \cup error_msg(FailureRecord))
               \cap {"unauthorized", "Unauthorized"} # {})
           => health.status = "AUTH_ERROR"
    /\ (/\ RawOutputCase
        /\ output_of(probe.lines) \cap {"unauthorized", "Unauthorized"} # {})
           => health.status = "AUTH_ERROR"

\* C24: check_health returns one HealthResult for every behaviour of the
\* probe and raises nothing: its code is one of 0 to 4, 0 exactly for
\* HEALTHY (which takes a JSON object that is no error and has a result or
\* output tokens), 1 for AUTH_ERROR, 2 for RATE_LIMITED, 4 for OVERLOADED and
\* 3 for every other failure, among them the timeout, the missing CLI, any
\* other exception and a JSON value behind the last result record that is
\* no object.
C24_OneOutcome ==
    HealthDone =>
        /\ health.status # "raised"
        /\ health.code \in {0, 1, 2, 3, 4}
        /\ health.code = 0 <=> health.status = "HEALTHY"
        /\ health.code = 1 <=> health.status = "AUTH_ERROR"
        /\ health.code = 2 <=> health.status = "RATE_LIMITED"
        /\ health.code = 4 <=> health.status = "OVERLOADED"
        /\ health.code = 3 <=>
               health.status \in {"PARSE_ERROR", "API_ERROR", "NO_RESPONSE", "TIMEOUT",
                                  "NOT_FOUND", "EXCEPTION"}
        /\ probe.behaviour \in {"timeout", "not_found", "error"} => health.code = 3
        /\ (\E i \in (LastResultAt(probe.lines) + 1)..Len(probe.lines) :
                probe.lines[i].json = "value")
               => health.code = 3
        /\ health.code = 0 =>
               \E i \in 1..Len(probe.lines) :
                   /\ probe.lines[i].json = "object"
                   /\ ~probe.lines[i].is_error
                   /\ \/ probe.lines[i].result # {}
                      \/ probe.lines[i].usage.output_tokens > 0

C24_Witness ==
    /\ HealthDone
    /\ probe.behaviour = "output"
    /\ probe.lines = <<NonObject>>
    /\ health.status = "EXCEPTION"
    /\ health.code = 3

\* --------------------------------------------------- claims on the streams
strip_malformed(lines) == SelectSeq(lines, LAMBDA l : l.json # "malformed")

HasResult(lines) ==
    \E i \in 1..Len(lines) : lines[i].json = "object" /\ lines[i].type = "result"

FormatDone == program = "format-output" /\ step \in {"summary", "silent"}

\* What main has printed: the return values of process_line but None.
printed == SelectSeq(rendered, LAMBDA r : r # NoLine)

\* C25: lines that json.loads rejects are skipped: for a stream with a
\* result record, check_health returns what it returns for the stream
\* without its malformed lines, and format-output.py has printed the same
\* lines and added up the same totals as for the stream without them.
C25_MalformedSkipped ==
    /\ (HealthDone /\ probe.behaviour = "output" /\ HasResult(probe.lines)) =>
           health = check_health([probe EXCEPT !.lines = strip_malformed(@)])
    /\ (FormatDone /\ HasResult(stdin)) =>
           /\ printed = main_loop(strip_malformed(stdin), 1, ZeroStats, <<>>).printed
           /\ session_stats = main_loop(strip_malformed(stdin), 1, ZeroStats, <<>>).stats

C25_Witness ==
    /\ FormatDone
    /\ Len(stdin) = 3
    /\ stdin[1].json = "malformed"
    /\ stdin[2].type = "result"
    /\ stdin[3] = Malformed({"529"})
    /\ Len(printed) = 1
    /\ session_stats.output_tokens = 1

\* C26: what process_line returns for a line depends on that line alone:
\* the same line read twice is rendered twice the same way, and every line
\* is rendered as it is with no totals added up before it.
C26_SameLineSameResult ==
    program = "format-output" =>
        /\ \A i, j \in 1..Len(rendered) : stdin[i] = stdin[j] => rendered[i] = rendered[j]
        /\ \A i \in 1..Len(rendered) :
               stdin[i].json # "blank" => rendered[i] = process_line(stdin[i], ZeroStats).out

C26_Witness ==
    /\ program = "format-output"
    /\ Len(rendered) = 3
    /\ stdin[2] = ResultRecord({"OK"}, 1, 2)
    /\ stdin[3] = stdin[2]
    /\ rendered[3] = Rendered("metrics", <<>>, 2, 1, 2)
    /\ session_stats.input_tokens > 2

\* ------------------------------------------------------ claims on config.py
ConfigLoaded == program = "config" /\ step \in {"loaded", "notifier"}

\* The elements of a RECOVERY_DELAYS value, and those that are not blank.
Elements(s) == split(s, ",")

NonBlank(s) == SelectSeq(Elements(s), LAMBDA d : strip(d) # <<>>)

IsInteger(s) == int(s).ok

AllOf(seq) == [i \in 1..Len(seq) |-> int(seq[i]).value]

DelaysSetting == get(env_vars, <<"RECOVERY_DELAYS">>, <<>>)

RetriesSetting == get(env_vars, <<"CONTEXT_OVERFLOW_MAX_RETRIES">>, <<>>)

\* C27: Config.load returns a configuration for every .env file: without
\* RECOVERY_DELAYS, or with an element between its commas that is neither
\* blank nor an integer, recovery_delays is [600, 1200, 1800], else it is
\* the integers of the elements that are not blank, in order; without
\* CONTEXT_OVERFLOW_MAX_RETRIES or with a value that is no integer
\* context_overflow_max_retries is 2, else it is the integer.
C27_NumericFallback ==
    ConfigLoaded =>
        /\ loaded_config # NoConfig
        /\ loaded_config.recovery_delays =
               IF ~has_key(env_vars, <<"RECOVERY_DELAYS">>) THEN <<600, 1200, 1800>>
               ELSE IF \E i \in 1..Len(NonBlank(DelaysSetting)) :
                           ~IsInteger(NonBlank(DelaysSetting)[i])
               THEN <<600, 1200, 1800>>
               ELSE AllOf(NonBlank(DelaysSetting))
        /\ loaded_config.context_overflow_max_retries =
               IF ~has_key(env_vars, <<"CONTEXT_OVERFLOW_MAX_RETRIES">>) THEN 2
               ELSE IF ~IsInteger(RetriesSetting) THEN 2
               ELSE int(RetriesSetting).value

C27_Witness ==
    /\ ConfigLoaded
    /\ DelaysSetting = <<"5", ",", "x">>
    /\ loaded_config.recovery_delays = <<600, 1200, 1800>>
    /\ loaded_config.context_overflow_max_retries = 2

\* C27 as stated: recovery_delays is the default list as soon as any
\* element between the commas of RECOVERY_DELAYS is no integer, a blank
\* element among them.
C27_AnyElement ==
    (ConfigLoaded /\ has_key(env_vars, <<"RECOVERY_DELAYS">>)) =>
        loaded_config.recovery_delays =
            IF \E i \in 1..Len(Elements(DelaysSetting)) :
                   ~IsInteger(Elements(DelaysSetting)[i])
            THEN <<600, 1200, 1800>>
            ELSE AllOf(Elements(DelaysSetting))

SameIgnoringCase(a, b) ==
    /\ Len(a) = Len(b)
    /\ \A i \in 1..Len(a) : lower_char(a[i]) = lower_char(b[i])

EnabledSetting == get(env_vars, <<"RECOVERY_ENABLED">>, <<>>)

\* C28: recovery_enabled is true exactly when RECOVERY_ENABLED is absent or
\* its value is "true", "1" or "yes" in any letter case.
C28_RecoveryEnabled ==
    ConfigLoaded =>
        (loaded_config.recovery_enabled <=>
            \/ ~has_key(env_vars, <<"RECOVERY_ENABLED">>)
            \/ \E word \in {<<"t", "r", "u", "e">>, <<"1">>, <<"y", "e", "s">>} :
                   SameIgnoringCase(EnabledSetting, word))

C28_Witness ==
    /\ ConfigLoaded
    /\ EnabledSetting = <<"T", "R", "U", "E">>
    /\ loaded_config.recovery_enabled

Range_(s) == {s[i] : i \in 1..Len(s)}

\* The lines of the file that set a key, the key and the value they name.
EntryLines ==
    {i \in 1..Len(env_file.lines) :
        /\ strip(env_file.lines[i]) # <<>>
        /\ strip(env_file.lines[i])[1] # "#"
        /\ "=" \in Range_(env_file.lines[i])}

KeyOf(i) ==
    strip(SubSeq(env_file.lines[i], 1, find(env_file.lines[i], "=") - 1))

ValueOf(i) ==
    strip(SubSeq(env_file.lines[i], find(env_file.lines[i], "=") + 1,
                 Len(env_file.lines[i])))

Quoted(v) == Len(v) >= 2 /\ v[1] \in {"\"", "'"} /\ v[Len(v)] = v[1]

\* C29: _load_env_file returns one entry for every key that a line with
\* "=" names, empty lines and comments left out; the value is the one of
\* the last line with the key, without the pair of quotes around it if
\* there is one; a file that does not exist gives the empty dictionary.
C29_EnvFile ==
    (program = "config" /\ step # "start") =>
        /\ ~env_file.exists => env_vars = {}
        /\ keys(env_vars) = {KeyOf(i) : i \in EntryLines}
        /\ Cardinality(env_vars) = Cardinality(keys(env_vars))
        /\ \A i \in EntryLines :
               (\A j \in EntryLines : j > i => KeyOf(j) # KeyOf(i)) =>
                   /\ Quoted(ValueOf(i)) =>
                          <<KeyOf(i), SubSeq(ValueOf(i), 2, Len(ValueOf(i)) - 1)>> \in env_vars
                   /\ (ValueOf(i) = <<>> \/ ValueOf(i)[1] \notin {"\"", "'"}) =>
                          <<KeyOf(i), ValueOf(i)>> \in env_vars

C29_Witness ==
    /\ program = "config"
    /\ step = "env"
    /\ env_file.lines = <<<<"KEY1", "=", "a">>, <<"KEY1", "=", "\"", "a", " ", "b", "\"">>>>
    /\ env_vars = {<<<<"KEY1">>, <<"a", " ", "b">>>>}

NonEmpty(x) == x # None /\ x # Some(<<>>)

\* C30: telegram_configured holds only with a bot token and a chat id that
\* are both non-empty, and a Notifier that lacks one of them has made no
\* request to Telegram and has returned False from every event method.
C30_Unconfigured ==
    /\ ConfigLoaded =>
           (telegram_configured(loaded_config) <=>
               /\ NonEmpty(loaded_config.telegram_bot_token)
               /\ NonEmpty(loaded_config.telegram_chat_id))
    /\ (/\ program = "config"
        /\ step = "notifier"
        /\ ~(NonEmpty(notifier.token) /\ NonEmpty(notifier.chat_id))) =>
           /\ network_sends = 0
           /\ notified # NoEvent => ~delivery.returned

C30_Witness ==
    /\ program = "config"
    /\ step = "notifier"
    /\ notifier = [token |-> Some(<<"x">>), chat_id |-> Some(<<>>)]
    /\ notified = Event("task_failed", 0, 0, 0)
    /\ delivery = Delivery("unconfigured")
    /\ network_sends = 0

\* C31: the prompt of every invocation is built for that invocation. The
\* first attempt of a task has no recovery note and no resume session; an
\* attempt after a fresh retry carries the overflow note with the current
\* retry count and the configured maximum; an attempt after a recovery
\* carries the resume note with the error kind of the result that started
\* the recovery. No attempt carries the note of an earlier transition.
C31_PromptPerAttempt ==
    pc = "running" =>
        /\ run_prompt.task = task_num
        /\ via = "first" =>
               /\ run_prompt.note = NoNote
               /\ run_resume = NoSession
        /\ via = "fresh" =>
               run_prompt.note = OverflowNote(context_overflow_attempts,
                                              config.context_overflow_max_retries)
        /\ via = "resume" =>
               /\ result.error_type \in ErrorKind
               /\ run_prompt.note = ResumeNote(result.error_type)

\* A resumed attempt after a fresh retry: the note is the resume note, not
\* the overflow note of the retry before it.
C31_Witness ==
    /\ pc = "running"
    /\ via = "resume"
    /\ context_overflow_attempts = 1
    /\ run_prompt = build_prompt(task_num, ResumeNote("RateLimited"))

\* A step of RetryFresh: the only step from the decision to a new attempt.
FreshRetryStep == pc = "decide" /\ pc' = "build"

\* C32: within a task context_overflow_attempts never decreases, grows by
\* exactly one with every fresh retry and with no other step, recoveries in
\* between included, and stays between 0 and context_overflow_max_retries.
C32_CounterSteps ==
    /\ [](/\ 0 <= context_overflow_attempts
          /\ context_overflow_attempts <= config.context_overflow_max_retries)
    /\ [][(InTask /\ InTask') =>
              /\ context_overflow_attempts' >= context_overflow_attempts
              /\ FreshRetryStep =>
                     /\ context_overflow_attempts' = context_overflow_attempts + 1
                     /\ nFresh' = nFresh + 1
              /\ ~FreshRetryStep =>
                     /\ context_overflow_attempts' = context_overflow_attempts
                     /\ nFresh' = nFresh]_vars

\* A resumed attempt after two fresh retries: the count is still two.
C32_Witness ==
    /\ pc = "running"
    /\ via = "resume"
    /\ context_overflow_attempts = 2
    /\ nFresh = 2
    /\ config.context_overflow_max_retries = 2

\* C38: failed and failed_reasons have the same length, and the reason at
\* each position is the error kind of the terminal outcome of the task at
\* the same position of failed; failed lists the tasks in queue order.
C38_ReasonsAligned ==
    /\ Len(failed_reasons) = Len(failed)
    /\ \A i \in 1..Len(failed) :
           /\ failed[i] \in 1..Len(outcomes)
           /\ tasks[failed[i]] = failed[i]
           /\ failed_reasons[i] = outcomes[failed[i]]
           /\ failed_reasons[i] \notin {"Success", "OnHold"}
    /\ \A i, j \in 1..Len(failed) : i < j => failed[i] < failed[j]

C38_Witness ==
    /\ pc = "done"
    /\ outcomes = <<"Timeout", "Success", "AuthError">>
    /\ failed = <<1, 3>>
    /\ failed_reasons = <<"Timeout", "AuthError">>

\* C39: in a session with tasks session_start is the first notification and
\* session_complete the last, and a session that returns has sent each of
\* them once, with the pipeline_stopped of a stopped pipeline in between.
\* A session without tasks returns 1, sends nothing and attempts nothing.
C39_SessionEvents ==
    /\ [][notified' # NoEvent =>
              /\ tasks # <<>>
              /\ (session_events = <<>>) <=> (notified'.name = "session_start")
              /\ "session_complete" \notin Range(session_events)]_vars
    /\ [](pc = "done" =>
              IF tasks = <<>>
              THEN /\ session_events = <<>>
                   /\ exit_code = 1
                   /\ attempted = {}
                   /\ outcomes = <<>>
              ELSE session_events =
                       IF pipeline_stopped
                       THEN <<"session_start", "pipeline_stopped", "session_complete">>
                       ELSE <<"session_start", "session_complete">>)

C39_Witness ==
    /\ pc = "done"
    /\ tasks # <<>>
    /\ pipeline_stopped
    /\ completed = <<>>
    /\ session_events = <<"session_start", "pipeline_stopped", "session_complete">>
    /\ notified = Event("session_complete", 0, 1, 0)

\* C40: the recovery status of the session header is the effective recovery
\* setting: "enabled" exactly when config.recovery_enabled holds after the
\* --no-recovery flag was applied.
C40_HeaderMatchesSetting ==
    header_recovery # "unset" =>
        (header_recovery = "enabled" <=> config.recovery_enabled)

\* The lines of stdin that are result records.
IsResult(line) == line.json = "object" /\ line.type = "result"

\* The usage of the result records among the first n lines.
RECURSIVE usage_sums(_, _)
usage_sums(lines, n) ==
    IF n = 0 THEN [input_tokens |-> 0, output_tokens |-> 0, cost_usd |-> 0]
    ELSE LET before == usage_sums(lines, n - 1)
             line == lines[n]
         IN  IF IsResult(line)
             THEN [input_tokens |-> before.input_tokens + line.usage.input_tokens
                                        + line.usage.cache_read_input_tokens,
                   output_tokens |-> before.output_tokens + line.usage.output_tokens,
                   cost_usd |-> before.cost_usd + line.total_cost_usd]
             ELSE before

usage_totals(stats) ==
    [input_tokens |-> stats.input_tokens, output_tokens |-> stats.output_tokens,
     cost_usd |-> stats.cost_usd]

\* C33: after any number of lines the totals of format-output are the sums
\* over the result records read so far, failure results included:
\* input_tokens of input_tokens + cache_read_input_tokens, output_tokens of
\* output_tokens, cost_usd of total_cost_usd. A line that is no result record
\* leaves the three totals as they are, and no line makes one smaller.
C33_TotalsAreSums ==
    /\ [](program = "format-output" =>
              usage_totals(session_stats) = usage_sums(stdin, line_no))
    /\ [][(program = "format-output" /\ line_no' = line_no + 1) =>
              /\ session_stats'.input_tokens >= session_stats.input_tokens
              /\ session_stats'.output_tokens >= session_stats.output_tokens
              /\ session_stats'.cost_usd >= session_stats.cost_usd
              /\ ~IsResult(stdin[line_no']) =>
                     usage_totals(session_stats') = usage_totals(session_stats)]_vars

\* A failed run, a line that is no JSON and a successful run have been read.
C33_Witness ==
    /\ program = "format-output"
    /\ line_no = 3
    /\ stdin = <<FailedRunRecord, Malformed({}), ResultRecord({"OK"}, 1, 2)>>
    /\ usage_totals(session_stats) =
           [input_tokens |-> 5, output_tokens |-> 2, cost_usd |-> 3]

\* No path of the working tree has a change or is untracked.
TreeClean(t) == \A p \in Paths : t[p] \in {"clean", "absent"}

\* C34: when cleanup_working_dir returns for a git working directory the
\* working tree is clean and the returned list names exactly the paths that
\* the call reverted or removed, also when git checkout or git clean failed.
C34_CleanAndListed ==
    [][(/\ program = "cleanup_working_dir"
        /\ is_repo
        /\ step = "start"
        /\ step' = "returned") =>
           /\ TreeClean(tree')
           /\ Range(cleaned_files') = {p \in Paths : tree'[p] # tree[p]}]_vars

\* The skills of the reviews run so far, in the order they ran.
RECURSIVE names(_)
names(rs) == IF rs = <<>> THEN <<>> ELSE <<Head(rs).name>> \o names(Tail(rs))

\* C35: run_review runs the reviews in the order of REVIEWS, each once and
\* none skipped whatever the results before it (exit code, timeout,
\* exception), and what it returns is 0 exactly when every review succeeded.
C35_EveryReviewOnce ==
    program = "ralph review" =>
        /\ names(results) = SubSeq(REVIEWS, 1, Len(results))
        /\ step \in {"summary", "returned"} => names(results) = REVIEWS
        /\ step = "returned" =>
               (returned = 0 <=> \A i \in 1..Len(REVIEWS) : results[i].success)

C35_Witness ==
    /\ program = "ralph review"
    /\ step = "returned"
    /\ returned = 1
    /\ results = <<[name |-> "ralph-review-code", success |-> FALSE],
                   [name |-> "ralph-review-simplify", success |-> TRUE],
                   [name |-> "ralph-review-security", success |-> FALSE],
                   [name |-> "ralph-review-codex", success |-> TRUE]>>

\* The review loop of run_review has ended and its finally clause has run.
ReviewLoopEnded ==
    program = "ralph review" /\ step \in {"summary", "returned", "interrupted"}

\* C36 as stated: once the review loop has ended, however it ended, a state
\* file that was suspended is back in its place.
C36_AlwaysRestored ==
    (ReviewLoopEnded /\ state_suspended) =>
        (state_file = "active" /\ state_backup = "absent")

\* C36: once the review loop has ended, normally or by an interrupt, a
\* state file that was suspended is back in its place unless the rename
\* back failed; then the backup still holds it and a warning was written.
\* Files that run_review did not suspend are never changed.
C36_RestoredUnlessRenameFails ==
    /\ [](ReviewLoopEnded /\ state_suspended =>
              IF "Could not restore workflow state" \in warnings
              THEN state_file = "absent" /\ state_backup = "active"
              ELSE state_file = "active" /\ state_backup = "absent")
    /\ [][(program = "ralph review" /\ ~state_suspended') =>
              UNCHANGED <<state_file, state_backup>>]_vars

\* An interrupt during the third review; the state file is back.
C36_Witness ==
    /\ program = "ralph review"
    /\ step = "interrupted"
    /\ raising
    /\ Len(results) = 2
    /\ state_suspended
    /\ state_file = "active"
    /\ state_backup = "absent"

\* C37: in run_plan a task that fails (exit code or exception) is followed
\* by the next task and makes the exit code 1. An operator interrupt while
\* the agent runs ends the loop: no later task is started, the interrupted
\* task is in neither list, and the exit code is 0 unless a task failed
\* before. Without an interrupt every task is started.
C37_FailureGoesOnInterruptStops ==
    /\ [](program = "ralph plan" /\ step \in {"summary", "returned"} /\ plan_tasks # <<>> =>
              /\ plan_started = SubSeq(plan_tasks, 1, Len(plan_started))
              /\ IF "Interrupted by user" \in warnings
                 THEN /\ plan_started # <<>>
                      /\ plan_started[Len(plan_started)]
                             \notin Range(plan_completed) \cup Range(plan_failed)
                      /\ Range(plan_completed) \cup Range(plan_failed)
                             = Range(SubSeq(plan_started, 1, Len(plan_started) - 1))
                 ELSE /\ plan_started = plan_tasks
                      /\ Range(plan_completed) \cup Range(plan_failed) = Range(plan_tasks)
              /\ step = "returned" => (returned = 0 <=> plan_failed = <<>>))
    /\ [][(/\ program = "ralph plan"
           /\ step = "agent"
           /\ plan_failed' # plan_failed
           /\ plan_idx < Len(plan_tasks)) => step' = "loop"]_vars

\* The first task failed, the second was planned, the third was interrupted.
C37_Witness ==
    /\ program = "ralph plan"
    /\ step = "returned"
    /\ plan_tasks = <<1, 2, 3>>
    /\ plan_started = <<1, 2, 3>>
    /\ plan_failed = <<1>>
    /\ plan_completed = <<2>>
    /\ "Interrupted by user" \in warnings
    /\ returned = 1

====
